---- MODULE Spec2Model ----
(***************************************************************************)
(* PicoWeather firmware: a state-machine model of the parts of the         *)
(* repository its behavioural claims are about.                            *)
(*                                                                         *)
(*   SpecButton   drivers/input_driver.py   Button.check()                 *)
(*   SpecMain     main.py, utils/console.py  boot, main loop, console      *)
(*   SpecSensors  drivers/sensors_driver.py  SensorsDriver                 *)
(*   SpecFM       drivers/controller_driver.py  FMTransmitterRDA5807       *)
(*   SpecTime     drivers/time_driver.py  TimeDriver: clock and timestamp  *)
(*   SpecSync     drivers/time_driver.py  TimeDriver: NTP synchronisation  *)
(*   SpecNet      drivers/networking_driver.py  auto_connect               *)
(*   SpecEsp      drivers/networking_driver.py  ESP8285 AT exchange        *)
(*   SpecDisplay  drivers/display_driver.py  DisplayDriver                 *)
(*   SpecLocale   utils/locale_manager.py  LocaleManager                   *)
(*   SpecTimers   main.py  the timers of start_main_loop                   *)
(*   SpecController  main.py  the controller_data cache                    *)
(*   SpecDiagnostic  utils/diagnostic.py  SystemDiagnostic                 *)
(*                                                                         *)
(* Every specification starts from the same Init and leaves the variables  *)
(* of the other subsystems unchanged.                                      *)
(***************************************************************************)
EXTENDS Integers, Sequences, FiniteSets, TLC

(***************************************************************************)
(* Bounds of the model.                                                    *)
(***************************************************************************)
\* Last value of the millisecond clock the button model explores.
MaxTime == 9
\* Largest number of milliseconds between two consecutive check() calls.
MaxStep == 6
\* The debounce window and long-press threshold of the modelled button, as
\* InputDriver._initialize_buttons copies them from the configuration
\* (buttons.debounce_ms, buttons.long_press_ms); the model uses a
\* configuration with small values so that every millisecond is explored.
debounce_ms == 2
long_press_ms == 4
\* Main-loop iterations the orchestrator model counts.
MaxPolls == 2
\* Largest sensor error_count the sensor model lets a failed read produce.
MaxErrorCount == 6
\* Calls made on the FM transmitter in one run of its model.
MaxFmOps == 3
\* Requested frequencies reach this many tenths of MHz around 88.0 and 108.0.
RequestSpan == 6
\* Requested volumes reach this far below 0 and above 15.
VolumeSpan == 5
\* Calls made on the time driver in one run of the clock model, the
\* constructor included.
MaxClockOps == 2
\* The last year for which the model computes a timestamp.
LastStampYear == 2030
\* Calls made on the time driver in one run of the sync model, the
\* constructor included.
MaxSyncOps == 4
\* Clock advances in one run of the sync model.
MaxAdvances == 4
\* auto_connect is called with max_attempts from 0 to MaxAttempts,
\* MaxNetOps times in a run.
MaxAttempts == 3
MaxNetOps == 2
\* read_all() calls the orchestrator makes in one run of the sensor model.
MaxReads == 3
\* Last value of the WiFi manager's error_count the model follows.
MaxWifiErrors == 1
\* Passes of the AT wait loop whose UART outcome the model chooses, and
\* AT exchanges made on the ESP8285 manager in one run.
MaxEvents == 2
MaxAtOps == 1
\* Presses of the down button in one run of the controller-cache model.
MaxPresses == 4
\* check_connection() calls in one run of the ESP8285 model.
MaxChecks == 2
\* Iterations of the main loop the timer model follows.
MaxIterations == 3

VARIABLES
    \* ---- drivers/input_driver.py: one Button and what its check() sees ----
    now,        \* utime.ticks_ms() at the last check() call
    pin,        \* pin.value() at the last check() call (0 or 1)
    btn,        \* the Button object's fields
    event,      \* the string the last check() call returned
    cyc,        \* observer: what happened since the raw level last went active
    \* ---- main.py and utils/console.py: main(), the orchestrator, the console ----
    pc,         \* where main() is
    sys,        \* the PicoWeatherSystem object's fields
    init,       \* initialize_drivers(): checklist, steps run, steps failed, result
    con,        \* the PicoWeatherConsole object and what run_console returned
    fs,         \* the files config.json and config.json.backup
    stop,       \* observer: why start_main_loop stopped polling
    polls,      \* observer: main-loop iterations completed
    \* ---- drivers/sensors_driver.py: SensorsDriver ----
    sensors,    \* self.sensors: the registered sensors, by name
    data_cache, \* self.data_cache: the fields of the last read_all()
    built,      \* observer: how SensorsDriver's construction ended
    sensor_data, \* PicoWeatherSystem.sensor_data
    sread,      \* observer: the orchestrator's last sensor refresh
    \* ---- drivers/controller_driver.py: FMTransmitterRDA5807 ----
    fm,         \* the transmitter object's fields
    regs,       \* the chip's registers 0x02, 0x03 and 0x05
    fmop,       \* observer: the last call made on the transmitter
    \* ---- drivers/time_driver.py: TimeDriver ----
    td,         \* the TimeDriver object's fields
    rtc,        \* what machine.RTC().datetime() reads
    clock,      \* milliseconds since boot (utime.ticks_ms() is clock mod 2^30)
    tmop,       \* observer: the last call made on the time driver
    ntp,        \* observer: the history of the sync calls
    \* ---- drivers/networking_driver.py: NetworkingDriver ----
    wifi,       \* the WiFi manager's fields and the configured networks
    conn,       \* auto_connect: its position and what it did so far
    \* ---- drivers/networking_driver.py: ESP8285WifiManager ----
    esp,        \* the ESP8285 manager's fields
    atop,       \* observer: the last call made on the manager
    \* ---- drivers/display_driver.py: DisplayDriver ----
    disp,       \* the display driver's fields
    dop,        \* observer: the last show_framebuffer call
    \* ---- utils/locale_manager.py: LocaleManager ----
    loc,        \* the locale manager's two trees
    locop,      \* observer: the last text lookup
    \* ---- main.py: the timers of start_main_loop ----
    lp,         \* start_main_loop: its locals and the time since boot
    runs,       \* observer: the last two runs of each step
    \* ---- main.py: controller_data ----
    ctl,        \* the controller driver: its transmitter, muted flag and errors
    controller_data,\* PicoWeatherSystem.controller_data
    ui,         \* where the orchestrator is, and what the display was last given
    \* ---- utils/diagnostic.py: SystemDiagnostic ----
    diag        \* SystemDiagnostic: results['tests'] and the summary printed

btnVars == <<now, pin, btn, event, cyc>>
mainVars == <<pc, sys, init, con, fs, stop, polls>>
sensorVars == <<sensors, data_cache, built, sensor_data, sread>>
fmVars == <<fm, regs, fmop>>
timeVars == <<td, rtc, clock, tmop, ntp>>
netVars == <<wifi, conn>>
espVars == <<esp, atop>>
displayVars == <<disp, dop>>
localeVars == <<loc, locop>>
timersVars == <<lp, runs>>
controllerVars == <<ctl, controller_data, ui>>
diagnosticVars == <<diag>>

vars == <<now, pin, btn, event, cyc, pc, sys, init, con, fs, stop, polls,
          sensors, data_cache, built, sensor_data, sread, fm, regs, fmop,
          td, rtc, clock, tmop, ntp, wifi, conn, esp, atop, disp, dop,
          loc, locop, lp, runs, ctl, controller_data, ui, diag>>

\* What the actions of one subsystem leave alone.
exceptButton == <<mainVars, sensorVars, fmVars, timeVars, netVars, espVars,
                   displayVars, localeVars, timersVars, controllerVars,
                   diagnosticVars>>
exceptMain == <<btnVars, sensorVars, fmVars, timeVars, netVars, espVars,
                 displayVars, localeVars, timersVars, controllerVars,
                 diagnosticVars>>
exceptSensors == <<btnVars, mainVars, fmVars, timeVars, netVars, espVars,
                    displayVars, localeVars, timersVars, controllerVars,
                    diagnosticVars>>
exceptFM == <<btnVars, mainVars, sensorVars, timeVars, netVars, espVars,
               displayVars, localeVars, timersVars, controllerVars,
               diagnosticVars>>
exceptTime == <<btnVars, mainVars, sensorVars, fmVars, netVars, espVars,
                 displayVars, localeVars, timersVars, controllerVars,
                 diagnosticVars>>
exceptNet == <<btnVars, mainVars, sensorVars, fmVars, timeVars, espVars,
                displayVars, localeVars, timersVars, controllerVars,
                diagnosticVars>>
exceptEsp == <<btnVars, mainVars, sensorVars, fmVars, timeVars, netVars,
                displayVars, localeVars, timersVars, controllerVars,
                diagnosticVars>>
exceptDisplay == <<btnVars, mainVars, sensorVars, fmVars, timeVars, netVars,
                    espVars, localeVars, timersVars, controllerVars,
                    diagnosticVars>>
exceptLocale == <<btnVars, mainVars, sensorVars, fmVars, timeVars, netVars,
                   espVars, displayVars, timersVars, controllerVars,
                   diagnosticVars>>
exceptTimers == <<btnVars, mainVars, sensorVars, fmVars, timeVars, netVars,
                   espVars, displayVars, localeVars, controllerVars,
                   diagnosticVars>>
exceptController == <<btnVars, mainVars, sensorVars, fmVars, timeVars, netVars,
                       espVars, displayVars, localeVars, timersVars, diagnosticVars>>
exceptDiagnostic == <<btnVars, mainVars, sensorVars, fmVars, timeVars, netVars,
                       espVars, displayVars, localeVars, timersVars, controllerVars>>

(***************************************************************************)
(* drivers/input_driver.py: Button                                         *)
(***************************************************************************)
\* InputDriver builds every button with pull_up=True.
pull_up == TRUE

\* utime.ticks_ms() counts modulo this period.
TICKS_PERIOD == 2 ^ 30

\* utime.ticks_diff: the signed difference of two tick values, in
\* [-TICKS_PERIOD/2, TICKS_PERIOD/2).
ticks_diff(a, b) ==
    ((a - b + TICKS_PERIOD \div 2) % TICKS_PERIOD) - TICKS_PERIOD \div 2

\* "is_pressed" / "was_pressed": the active level is 0 with a pull-up.
IsActive(level) == IF pull_up THEN level = 0 ELSE level = 1

\* Button.__init__ followed by Button.initialize() with the pin reading v.
NewButton(v, cb, lcb) ==
    [ last_state    |-> v,
      pressed_time  |-> 0,
      long_pressed  |-> FALSE,
      press_count   |-> 0,
      error_count   |-> 0,
      detected      |-> TRUE,
      callback      |-> cb,
      long_callback |-> lcb ]

\* The release branch emits a normal press.
ShortPressDue(b, press_duration) ==
    press_duration > debounce_ms /\ ~b.long_pressed

LongPressDue_NoLatch(b, press_duration) ==
    press_duration > long_press_ms

\* The held branch emits a long press.
LongPressDue(b, press_duration) ==
    press_duration > long_press_ms /\ ~b.long_pressed

\* Button.check() with pin.value() = level and utime.ticks_ms() = t.
\* Result: the button after the call (b), the returned event (ev) and the
\* callbacks invoked (cb, lcb: 0 or 1).
ButtonCheck(b, level, t) ==
    LET is_pressed  == IsActive(level)
        was_pressed == IsActive(b.last_state)
        press_duration == ticks_diff(t, b.pressed_time)
        quiet(nb) == [b |-> nb, ev |-> "", cb |-> 0, lcb |-> 0]
    IN
    IF ~b.detected THEN quiet(b)
    ELSE IF is_pressed /\ ~was_pressed THEN
        \* just pressed
        quiet([b EXCEPT !.pressed_time = t, !.long_pressed = FALSE,
                        !.last_state = level])
    ELSE IF ~is_pressed /\ was_pressed THEN
        \* just released
        IF ShortPressDue(b, press_duration) THEN
            \* returns before last_state is updated
            [ b   |-> [b EXCEPT !.press_count = @ + 1],
              ev  |-> "press",
              cb  |-> IF b.callback THEN 1 ELSE 0,
              lcb |-> 0 ]
        ELSE quiet([b EXCEPT !.last_state = level])
    ELSE IF is_pressed /\ was_pressed THEN
        \* still held
        IF LongPressDue(b, press_duration) THEN
            \* returns before last_state is updated
            [ b   |-> [b EXCEPT !.long_pressed = TRUE],
              ev  |-> "long",
              cb  |-> 0,
              lcb |-> IF b.long_callback THEN 1 ELSE 0 ]
        ELSE quiet([b EXCEPT !.last_state = level])
    ELSE quiet([b EXCEPT !.last_state = level])

\* Observer of one physical press cycle, as the sequence of check() calls
\* sees it: the cycle starts at the call that first samples the raw level
\* active after having sampled it inactive.
NewCycle(b, t) ==
    [ open     |-> TRUE,          \* a cycle has started
      clean    |-> ~IsActive(b.last_state),  \* it started in Released
      start    |-> t,             \* time of the first active sample
      held     |-> 0,             \* elapsed time at the last active sample
      released |-> FALSE,         \* an inactive sample followed
      rel_dur  |-> 0,             \* elapsed time at the first inactive sample
      n_press  |-> 0,             \* "<name>_press" events since start
      n_long   |-> 0,             \* "<name>_long" events since start
      n_cb     |-> 0,             \* short callback invocations since start
      n_lcb    |-> 0,             \* long callback invocations since start
      pc0      |-> b.press_count ]

NoCycle ==
    [ open |-> FALSE, clean |-> FALSE, start |-> 0, held |-> 0,
      released |-> FALSE, rel_dur |-> 0, n_press |-> 0, n_long |-> 0,
      n_cb |-> 0, n_lcb |-> 0, pc0 |-> 0 ]

Observe(c, b, prev, level, t, r) ==
    LET c1 == IF IsActive(level) /\ ~IsActive(prev) THEN NewCycle(b, t)
              ELSE c
        c2 == IF ~c1.open THEN c1
              ELSE IF IsActive(level)
                   THEN [c1 EXCEPT !.held = t - c1.start]
              ELSE IF ~c1.released
                   THEN [c1 EXCEPT !.released = TRUE, !.rel_dur = t - c1.start]
              ELSE c1
    IN  IF ~c2.open THEN c2
        ELSE [c2 EXCEPT !.n_press = @ + (IF r.ev = "press" THEN 1 ELSE 0),
                        !.n_long  = @ + (IF r.ev = "long" THEN 1 ELSE 0),
                        !.n_cb    = @ + r.cb,
                        !.n_lcb   = @ + r.lcb]

InitButton ==
    /\ now = 0
    /\ pin \in {0, 1}
    /\ \E cb \in BOOLEAN, lcb \in BOOLEAN : btn = NewButton(pin, cb, lcb)
    /\ event = ""
    /\ cyc = NoCycle

\* One check() call: dt milliseconds after the previous one, the pin reads
\* level.
Check ==
    \E dt \in 1..MaxStep, level \in {0, 1} :
        /\ now + dt <= MaxTime
        /\ LET r == ButtonCheck(btn, level, now + dt) IN
            /\ btn' = r.b
            /\ event' = r.ev
            /\ cyc' = Observe(cyc, btn, pin, level, now + dt, r)
        /\ now' = now + dt
        /\ pin' = level
        /\ UNCHANGED exceptButton

\* pin.value() raises inside check(): the except clause counts the error.
CheckFault ==
    \E dt \in 1..MaxStep :
        /\ now + dt <= MaxTime
        /\ btn' = [btn EXCEPT !.error_count = @ + 1]
        /\ event' = ""
        /\ now' = now + dt
        /\ UNCHANGED <<pin, cyc>>
        /\ UNCHANGED exceptButton

NextButton == Check \/ CheckFault

(***************************************************************************)
(* main.py: PicoWeatherSystem and main(); utils/console.py: the console    *)
(***************************************************************************)
\* PicoWeatherSystem.max_errors
max_errors == 10

\* Python's None, and a dict as a function from its keys.
None == "None"
EmptyDict == [k \in {} |-> None]
\* dict.get(key): None when the key is absent.
Get(d, k) == IF k \in DOMAIN d THEN d[k] ELSE None
\* d[key] = value
Put(d, k, v) == [x \in DOMAIN d \cup {k} |-> IF x = k THEN v ELSE d[x]]

\* A configuration document as json.load returns it: its sections, with
\* what initialize_drivers reads of wifi.enabled and
\* controllers.fm_transmitter.enabled.
ConfigDoc(w, f) ==
    [ hardware    |-> "cfg.hardware",
      system      |-> "cfg.system",
      display     |-> "cfg.display",
      wifi        |-> IF w THEN "enabled" ELSE "disabled",
      controllers |-> IF f THEN "enabled" ELSE "disabled" ]

\* PicoWeatherSystem.__init__ before _load_configuration.
NewSystem ==
    [ config          |-> EmptyDict,
      hardware        |-> None,
      drivers         |-> EmptyDict,
      display_manager |-> FALSE,
      display_ready   |-> FALSE,
      running         |-> FALSE,
      error_count     |-> 0,
      sensor_data     |-> "fallback",
      controller_data |-> "empty",
      time_data       |-> "default" ]

\* The steps of initialize_drivers, in program order.
StepOrder ==
    << "display_manager", "display_hw", "networking", "time", "sensors",
       "controllers", "input", "callbacks", "cache_sync", "time_data",
       "complete" >>
AllSteps == {StepOrder[i] : i \in 1..Len(StepOrder)}
StepIndex(step) == CHOOSE i \in 1..Len(StepOrder) : StepOrder[i] = step

\* Outcomes that leave a step without a FAIL.
Passed == {"ok", "online", "online_no_time", "skip"}

StepAborts_AnyRaise(step, o) == o = "raise"

\* The one step whose failure makes initialize_drivers return False:
\* "if not self._initialize_sensor_cache_sync(): ... return False".
StepAborts(step, o) == step = "cache_sync" /\ o = "raise"

\* One step of initialize_drivers with outcome o: the system becomes s2 and
\* line (if any) is appended to the checklist. When the step is the last one
\* the function returns True and run() goes on to start_main_loop; when it
\* aborts the function returns False, run() returns False and main() returns.
Step(step, o, s2, line) ==
    /\ pc = step
    /\ init' = [ status |-> IF line = "" THEN init.status
                            ELSE Append(init.status, line),
                 ran    |-> init.ran \cup {step},
                 failed |-> IF o \in Passed THEN init.failed
                            ELSE init.failed \cup {step},
                 result |-> IF StepAborts(step, o) THEN "False"
                            ELSE IF step = "complete" THEN "True"
                            ELSE init.result ]
    /\ IF StepAborts(step, o)
       THEN pc' = "returned" /\ sys' = s2
       ELSE IF step = "complete"
       THEN pc' = "loop" /\ sys' = [s2 EXCEPT !.running = TRUE]
       ELSE pc' = StepOrder[StepIndex(step) + 1] /\ sys' = s2
    /\ UNCHANGED <<con, fs, stop, polls>>

\* The driver objects initialize_drivers stores in self.drivers.
DriverObjects ==
    {"DisplayDriver", "NetworkingDriver", "TimeDriver", "SensorsDriver",
     "ControllerDriver", "InputDriver"}

\* What json.dump writes for one value: null for None, the JSON text of a
\* JSON value (held as the value's own token), and for a driver object the
\* text of its repr, which is no JSON.
Text(v) ==
    IF v = None THEN "null"
    ELSE IF v \in DriverObjects THEN "<object>"
    ELSE v

\* What json.load makes of one value's text.
Value(t) == IF t = "null" THEN None ELSE t

\* A dict json.dump can turn into JSON.
Serialisable(d) == \A k \in DOMAIN d : d[k] \notin DriverObjects

\* A file: whether it exists, whether its content is well-formed JSON, and
\* the text written under each key.
NoFile == [exists |-> FALSE, valid |-> FALSE, text |-> EmptyDict]

\* The file "json.dump(d, f)" leaves when it completes.
json_dump(d) ==
    [ exists |-> TRUE,
      valid  |-> Serialisable(d),
      text   |-> [k \in DOMAIN d |-> Text(d[k])] ]

\* The file "json.dump(d, f)" leaves when it raises part-way.
PartialFile == [exists |-> TRUE, valid |-> FALSE, text |-> EmptyDict]

\* "json.load(f)" succeeds on an existing, well-formed file ...
Parsable(file) == file.exists /\ file.valid

\* ... and yields this dict.
json_load(file) == [k \in DOMAIN file.text |-> Value(file.text[k])]

\* PicoWeatherConsole.__init__(drivers, config)
NewConsole(drivers, config, origin) ==
    [ entered           |-> TRUE,
      origin            |-> origin,
      drivers           |-> drivers,
      config            |-> config,
      sensors_driver    |-> Get(drivers, "sensors"),
      controller_driver |-> Get(drivers, "controller"),
      input_driver      |-> Get(drivers, "input"),
      display_driver    |-> Get(drivers, "display"),
      time_driver       |-> Get(drivers, "time"),
      wifi_manager      |-> Get(drivers, "wifi"),
      running           |-> TRUE,
      saved             |-> FALSE,
      enter_result      |-> "pending",
      run_result        |-> "pending",
      \* observer: the last save/reboot command, config.json and
      \* config.json.backup as they were before it, and the files it wrote,
      \* in order
      last_cmd          |-> "none",
      pre               |-> NoFile,
      pre_backup        |-> NoFile,
      writes            |-> <<>> ]

NoConsole ==
    [ entered |-> FALSE, origin |-> "none", drivers |-> EmptyDict,
      config |-> EmptyDict, sensors_driver |-> None,
      controller_driver |-> None, input_driver |-> None,
      display_driver |-> None, time_driver |-> None, wifi_manager |-> None,
      running |-> FALSE, saved |-> FALSE, enter_result |-> "pending",
      run_result |-> "pending", last_cmd |-> "none", pre |-> NoFile,
      pre_backup |-> NoFile, writes |-> <<>> ]

\* run_console(drivers, config): constructs the console and enters it.
run_console(drivers, config, origin) == NewConsole(drivers, config, origin)

\* The console_state dict enter_console_mode builds.
ConsoleState(s) ==
    [ drivers         |-> s.drivers,
      sensor_data     |-> s.sensor_data,
      controller_data |-> s.controller_data,
      time_data       |-> s.time_data,
      config          |-> s.config,
      hardware        |-> s.hardware ]

\* enter_console_mode: "run_console(console_state, self.drivers)".
enter_console_mode(s) == run_console(ConsoleState(s), s.drivers, "loop")

InitMain ==
    /\ pc = "boot"
    /\ sys = NewSystem
    /\ init = [status |-> <<>>, ran |-> {}, failed |-> {}, result |-> "pending"]
    /\ con = NoConsole
    /\ \E disk \in {"doc", "missing", "corrupt"}, w \in BOOLEAN, f \in BOOLEAN :
          fs = [ config_json |-> IF disk = "doc" THEN json_dump(ConfigDoc(w, f))
                                 ELSE IF disk = "missing" THEN NoFile
                                 ELSE PartialFile,
                 backup      |-> NoFile ]
    /\ stop = "none"
    /\ polls = 0

\* main(): PicoWeatherSystem() loads config.json; when that fails the
\* constructor raises and main() falls to run_console({}, {}).
Boot ==
    /\ pc = "boot"
    /\ IF Parsable(fs.config_json)
       THEN /\ sys' = [sys EXCEPT !.config = json_load(fs.config_json),
                                  !.hardware = "pico"]
            /\ pc' = "display_manager"
            /\ con' = con
       ELSE /\ sys' = sys
            /\ pc' = "console"
            /\ con' = run_console(EmptyDict, EmptyDict, "fatal")
    /\ UNCHANGED <<init, fs, stop, polls>>
    /\ UNCHANGED exceptMain

StepDisplayManager ==
    \E o \in {"ok", "raise"} :
        /\ Step("display_manager", o,
                [sys EXCEPT !.display_manager = (o = "ok")],
                IF o = "ok" THEN "DISPLAY: OK" ELSE "DISPLAY: FAIL")
        /\ UNCHANGED exceptMain

StepDisplayHardware ==
    \E o \in {"ok", "unhealthy", "raise"} :
        /\ Step("display_hw", o,
                [sys EXCEPT
                    !.drivers = IF o = "raise" THEN @
                                ELSE Put(@, "display", "DisplayDriver"),
                    !.display_ready = (o = "ok")],
                IF o = "ok" THEN "DISPLAY HW: OK" ELSE "DISPLAY HW: FAIL")
        /\ UNCHANGED exceptMain

StepNetworking ==
    \E o \in IF Get(sys.config, "wifi") = "enabled"
             THEN {"online", "online_no_time", "offline", "raise"}
             ELSE {"skip"} :
        /\ Step("networking", o,
                [sys EXCEPT
                    !.drivers = Put(@, "networking",
                        IF o \in {"online", "online_no_time"}
                        THEN "NetworkingDriver" ELSE None)],
                IF o \in {"online", "online_no_time"} THEN "NETWORKING: OK"
                ELSE IF o = "skip" THEN "NETWORKING: SKIP"
                ELSE "NETWORKING: FAIL")
        /\ UNCHANGED exceptMain

StepTime ==
    \E o \in IF Get(sys.drivers, "networking") # None
             THEN {"ok", "fail", "raise"}
             ELSE {"skip", "raise"} :
        /\ Step("time", o,
                [sys EXCEPT
                    !.drivers = Put(@, "time",
                        IF o = "raise" THEN None ELSE "TimeDriver")],
                IF o = "ok" THEN "NTP: OK"
                ELSE IF Get(sys.drivers, "networking") # None THEN "NTP: FAIL"
                ELSE "NTP: SKIP")
        /\ UNCHANGED exceptMain

StepSensors ==
    \E o \in {"ok", "nodata", "unhealthy", "raise"} :
        /\ Step("sensors", o,
                [sys EXCEPT
                    !.drivers = Put(@, "sensors",
                        IF o = "raise" THEN None ELSE "SensorsDriver"),
                    !.sensor_data = IF o = "ok" THEN "data" ELSE @],
                IF o = "ok" THEN "SENSORS: OK" ELSE "SENSORS: FAIL")
        /\ UNCHANGED exceptMain

StepControllers ==
    \E o \in IF Get(sys.config, "controllers") = "enabled"
             THEN {"ok", "unhealthy", "raise"}
             ELSE {"skip"} :
        /\ Step("controllers", o,
                [sys EXCEPT
                    !.drivers = Put(@, "controller",
                        IF o \in {"ok", "unhealthy"}
                        THEN "ControllerDriver" ELSE None),
                    !.controller_data = IF o = "ok" THEN "data" ELSE @],
                IF o = "ok" THEN "CONTROLLERS: OK"
                ELSE IF o = "skip" THEN "CONTROLLERS: SKIP"
                ELSE "CONTROLLERS: FAIL")
        /\ UNCHANGED exceptMain

StepInput ==
    \E o \in {"ok", "raise"} :
        /\ Step("input", o,
                [sys EXCEPT
                    !.drivers = Put(@, "input",
                        IF o = "ok" THEN "InputDriver" ELSE None)],
                IF o = "ok" THEN "BUTTONS: OK" ELSE "BUTTONS: FAIL")
        /\ UNCHANGED exceptMain

\* _setup_button_callbacks: returns at once without an input driver; a
\* register_callback that raises is caught and logged.
StepCallbacks ==
    \E o \in IF Get(sys.drivers, "input") = None
             THEN {"skip"} ELSE {"ok", "raise"} :
        /\ Step("callbacks", o, sys, "")
        /\ UNCHANGED exceptMain

\* _initialize_sensor_cache_sync: reads the healthy sensors and controller
\* again; any exception makes it return False.
StepCacheSync ==
    \E o \in {"ok", "raise"}, got_s \in BOOLEAN, got_c \in BOOLEAN :
        /\ (o = "raise" => ~got_c)
        /\ (Get(sys.drivers, "sensors") = None => ~got_s)
        /\ (Get(sys.drivers, "controller") = None => ~got_c)
        /\ Step("cache_sync", o,
                [sys EXCEPT
                    !.sensor_data = IF got_s THEN "data" ELSE @,
                    !.controller_data = IF got_c THEN "data" ELSE @],
                "")
        /\ UNCHANGED exceptMain

StepTimeData ==
    \E o \in IF Get(sys.drivers, "time") = None
             THEN {"skip"} ELSE {"ok", "raise"} :
        /\ Step("time_data", o,
                [sys EXCEPT !.time_data = IF o = "ok" THEN "snapshot" ELSE @],
                "")
        /\ UNCHANGED exceptMain

StepComplete ==
    /\ Step("complete", "ok", sys,
            IF sys.display_ready THEN "COMPLETE!" ELSE "")
    /\ UNCHANGED exceptMain

\* One iteration of the while loop of start_main_loop that raises nothing.
LoopIteration ==
    /\ pc = "loop"
    /\ polls < MaxPolls
    /\ polls' = polls + 1
    /\ UNCHANGED <<pc, sys, init, con, fs, stop>>
    /\ UNCHANGED exceptMain

\* "except KeyboardInterrupt": the loop is left and the console entered.
LoopInterrupt ==
    /\ pc = "loop"
    /\ stop' = "interrupt"
    /\ con' = enter_console_mode(sys)
    /\ pc' = "console"
    /\ UNCHANGED <<sys, init, fs, polls>>
    /\ UNCHANGED exceptMain

\* "except Exception": the try statement encloses the while loop, so the
\* handler runs after the loop has been left; start_main_loop then returns,
\* run() returns True and main() returns.
LoopError ==
    /\ pc = "loop"
    /\ stop' = "error"
    /\ sys' = [sys EXCEPT !.error_count = @ + 1]
    /\ IF sys.error_count + 1 >= max_errors
       THEN con' = enter_console_mode(sys') /\ pc' = "console"
       ELSE con' = con /\ pc' = "returned"
    /\ UNCHANGED <<init, fs, polls>>
    /\ UNCHANGED exceptMain

\* Where control goes when run_console returns: enter_console_mode,
\* start_main_loop, run() and main() return in turn; on the fatal path
\* main() calls machine.reset().
AfterConsole(origin) == IF origin = "loop" THEN "returned" ELSE "reset"

\* _cmd_return: enter_console returns "resume"; run_console drops the value.
ConsoleReturn ==
    /\ pc = "console"
    /\ con' = [con EXCEPT !.running = FALSE, !.enter_result = "resume",
                          !.run_result = None]
    /\ pc' = AfterConsole(con.origin)
    /\ UNCHANGED <<sys, init, fs, stop, polls>>
    /\ UNCHANGED exceptMain

\* _cmd_exit, or end of input.
ConsoleExit ==
    /\ pc = "console"
    /\ con' = [con EXCEPT !.running = FALSE, !.enter_result = None,
                          !.run_result = None]
    /\ pc' = AfterConsole(con.origin)
    /\ UNCHANGED <<sys, init, fs, stop, polls>>
    /\ UNCHANGED exceptMain

\* _validate_config: the three required sections default to {} and
\* hardware gets an empty pins mapping when it has none.
WithPins(section) ==
    IF section \in {"{}", "{pins}"} THEN "{pins}" ELSE "cfg.hardware+pins"

_validate_config(c) ==
    LET c1 == IF "hardware" \in DOMAIN c THEN c ELSE Put(c, "hardware", "{}")
        c2 == IF "system" \in DOMAIN c1 THEN c1 ELSE Put(c1, "system", "{}")
        c3 == IF "display" \in DOMAIN c2 THEN c2 ELSE Put(c2, "display", "{}")
    IN  Put(c3, "hardware", WithPins(c3["hardware"]))

\* _cmd_save_config: nothing is saved for an empty configuration; otherwise
\* the configuration is validated in place, config.json is copied to
\* config.json.backup when it can be parsed, and config.json is overwritten.
\* The console's config is the very dict object it was given, so the
\* in-place validation is seen by its owner too. For a dict holding
\* objects json.dump either writes their repr (MicroPython) or raises
\* part-way (CPython); after a raise config.json is rewritten from the
\* backup when that parses. Writes of well-formed data succeed.
ConsoleSave ==
    /\ pc = "console"
    /\ DOMAIN con.config # {}
    /\ \E raises \in BOOLEAN :
        LET c        == _validate_config(con.config)
            pre      == fs.config_json
            copied   == Parsable(pre)
            bk       == IF copied THEN json_dump(json_load(pre)) ELSE fs.backup
            restored == raises /\ Parsable(bk)
            cfg      == IF ~raises THEN json_dump(c)
                        ELSE IF restored THEN json_dump(json_load(bk))
                        ELSE PartialFile
        IN  /\ raises => ~Serialisable(c)
            /\ con' = [con EXCEPT
                          !.config = c, !.saved = TRUE,
                          !.last_cmd = "save", !.pre = pre,
                          !.pre_backup = fs.backup,
                          !.writes = (IF copied THEN <<"backup">> ELSE <<>>)
                                       \o <<"config">>
                                       \o (IF restored THEN <<"restore">>
                                           ELSE <<>>)]
            /\ sys' = IF con.origin = "loop" THEN [sys EXCEPT !.drivers = c]
                      ELSE sys
            /\ fs' = [config_json |-> cfg, backup |-> bk]
    /\ UNCHANGED <<pc, init, stop, polls>>
    /\ UNCHANGED exceptMain

\* _cmd_reboot: config.json is overwritten with the console's config (a
\* json.dump that raises is caught and reported), nothing else is written,
\* then machine.reset().
ConsoleReboot ==
    /\ pc = "console"
    /\ \E raises \in BOOLEAN :
        /\ raises => ~Serialisable(con.config)
        /\ fs' = [fs EXCEPT !.config_json = IF raises THEN PartialFile
                                            ELSE json_dump(con.config)]
    /\ con' = [con EXCEPT !.saved = TRUE, !.enter_result = "reset",
                          !.run_result = "reset",
                          !.last_cmd = "reboot", !.pre = fs.config_json,
                          !.pre_backup = fs.backup,
                          !.writes = <<"config">>]
    /\ pc' = "reset"
    /\ UNCHANGED <<sys, init, stop, polls>>
    /\ UNCHANGED exceptMain

NextMain ==
    \/ Boot
    \/ StepDisplayManager
    \/ StepDisplayHardware
    \/ StepNetworking
    \/ StepTime
    \/ StepSensors
    \/ StepControllers
    \/ StepInput
    \/ StepCallbacks
    \/ StepCacheSync
    \/ StepTimeData
    \/ StepComplete
    \/ LoopIteration
    \/ LoopInterrupt
    \/ LoopError
    \/ ConsoleReturn
    \/ ConsoleExit
    \/ ConsoleSave
    \/ ConsoleReboot

(***************************************************************************)
(* drivers/sensors_driver.py: SensorsDriver                                *)
(***************************************************************************)
\* is_healthy counts a sensor as working while its error_count is below this.
SENSOR_ERROR_LIMIT == 5

SensorNames == {"aht20", "bmp280"}

\* The fields each sensor's read() returns.
SensorFields(n) ==
    IF n = "aht20" THEN {"temperature", "humidity"}
    ELSE {"temperature", "pressure"}

\* A sensor as _discover_sensors registers it: detected, and initialize()
\* returned True.
RegisteredSensor ==
    [detected |-> TRUE, initialized |-> TRUE, error_count |-> 0]

Working_AtLimit(s) == s.initialized /\ s.error_count <= SENSOR_ERROR_LIMIT

\* The condition of the generator in is_healthy.
Working(s) == s.initialized /\ s.error_count < SENSOR_ERROR_LIMIT

\* SensorsDriver.is_healthy()
is_healthy(ss) ==
    IF DOMAIN ss = {} THEN FALSE
    ELSE Cardinality({n \in DOMAIN ss : Working(ss[n])}) > 0

\* _discover_sensors() on a driver whose bus 0 is or is not in
\* self.i2c_buses. cfg says whether devices.sensors.enabled is set and
\* whether each sub-section is absent, enabled ("on") or disabled ("off").
\* probe is, per sensor, what detect() and initialize() meet: "ok",
\* "not_found", "init_failed", or "scan_fault" when i2c_bus.scan() raises.
\* The result names the registered sensors, or the exception that left
\* the method.
discover_sensors(cfg, bus, probe) ==
    LET one(n) ==
            IF cfg[n] = "off" THEN [raised |-> "", registered |-> {}]
            ELSE IF cfg[n] = "absent"
            THEN [raised |-> "KeyError", registered |-> {}]
            ELSE IF ~bus THEN [raised |-> "", registered |-> {}]
            ELSE IF probe[n] = "scan_fault"
            THEN [raised |-> "OSError", registered |-> {}]
            ELSE [raised |-> "",
                  registered |-> IF probe[n] = "ok" THEN {n} ELSE {}]
    IN  IF ~cfg.enabled THEN [raised |-> "", registered |-> {}]
        ELSE IF one("aht20").raised # "" THEN one("aht20")
        ELSE IF one("bmp280").raised # "" THEN one("bmp280")
        ELSE [raised |-> "",
              registered |-> one("aht20").registered
                               \cup one("bmp280").registered]

\* "self.sensor_data = {...}  # Fallback inicial": the fields of a reading
\* and, as its values, the number of the read_all() call it came from.
FallbackData ==
    [fields |-> {"temperature", "humidity", "pressure"}, reading |-> 0]

NoSensorRead ==
    [op |-> "none", phase |-> 0, reads |-> 0, did_read |-> FALSE,
     result |-> FallbackData, last_good |-> FallbackData]

\* SensorsDriver(config, hardware) as initialize_drivers calls it: the
\* registered sensors, none when the construction raised and the
\* orchestrator keeps no sensors driver.
InitSensors ==
    /\ \E cfg \in [enabled : BOOLEAN, aht20 : {"absent", "on", "off"},
                  bmp280 : {"absent", "on", "off"}],
          bus \in BOOLEAN,
          probe \in [SensorNames ->
                        {"ok", "not_found", "init_failed", "scan_fault"}] :
          LET d == discover_sensors(cfg, bus, probe)
          IN  /\ built = [raised |-> d.raised,
                          absent |-> {n \in SensorNames : cfg[n] = "absent"},
                          enabled |-> cfg.enabled]
              /\ sensors = [n \in d.registered |-> RegisteredSensor]
    /\ data_cache = {}
    /\ sensor_data = FallbackData
    /\ sread = NoSensorRead

\* The sensors after a read_all() in which the reads of the sensors in
\* failing fail: a failed read counts one error, a good one changes no
\* counter.
AfterRead_ClearOnSuccess(ss, failing) ==
    [n \in DOMAIN ss |->
        IF ss[n].initialized /\ n \in failing
        THEN [ss[n] EXCEPT !.error_count = @ + 1]
        ELSE [ss[n] EXCEPT !.error_count = 0]]

AfterRead(ss, failing) ==
    [n \in DOMAIN ss |->
        IF ss[n].initialized /\ n \in failing
        THEN [ss[n] EXCEPT !.error_count = @ + 1]
        ELSE ss[n]]

\* The fields read_all() combines and returns.
Combined(ss, failing) ==
    UNION {SensorFields(n) :
           n \in {x \in DOMAIN ss : ss[x].initialized /\ x \notin failing}}

\* read_all(), called directly (console, diagnostic): every registered,
\* initialized sensor is read; a read that fails (absent values or an
\* exception inside read()) counts one error and contributes nothing; the
\* combined fields replace the cache.
ReadAll ==
    \E failing \in SUBSET (DOMAIN sensors) :
        /\ \A n \in failing : sensors[n].error_count < MaxErrorCount
        /\ sensors' = AfterRead(sensors, failing)
        /\ data_cache' = Combined(sensors, failing)
        /\ UNCHANGED <<built, sensor_data, sread>>
        /\ UNCHANGED exceptSensors

\* reset_error_counts()
ResetErrorCounts ==
    /\ sensors' = [n \in DOMAIN sensors |->
                      [sensors[n] EXCEPT !.error_count = 0]]
    /\ UNCHANGED <<data_cache, built, sensor_data, sread>>
    /\ UNCHANGED exceptSensors

\* "if new_data: self.sensor_data = new_data.copy()"
StoreReading_Always(old, new) == new

StoreReading(old, new) == IF new.fields # {} THEN new ELSE old

\* The orchestrator's guarded read, the same at its three sites: "if
\* sensors and sensors.is_healthy(): new_data = sensors.read_all(); if
\* new_data: self.sensor_data = new_data.copy()".
GuardedRead(op, phase) ==
    \/ /\ ~is_healthy(sensors)
       /\ sread' = [sread EXCEPT !.op = op, !.phase = phase,
                                 !.did_read = FALSE]
       /\ UNCHANGED <<sensors, data_cache, built, sensor_data>>
    \/ /\ is_healthy(sensors)
       /\ sread.reads < MaxReads
       /\ \E failing \in SUBSET (DOMAIN sensors) :
             LET new_data == [fields |-> Combined(sensors, failing),
                              reading |-> sread.reads + 1]
             IN  /\ \A n \in failing : sensors[n].error_count < MaxErrorCount
                 /\ sensors' = AfterRead(sensors, failing)
                 /\ data_cache' = new_data.fields
                 /\ sensor_data' = StoreReading(sensor_data, new_data)
                 /\ sread' = [op |-> op, phase |-> phase,
                              reads |-> sread.reads + 1, did_read |-> TRUE,
                              result |-> new_data,
                              last_good |-> StoreReading(sread.last_good,
                                                         new_data)]
       /\ UNCHANGED built

\* The seeding of sensor_data at boot: in initialize_drivers right after
\* the construction, then in _initialize_sensor_cache_sync.
SeedSensorData ==
    /\ sread.phase < 2
    /\ GuardedRead("seed", sread.phase + 1)
    /\ UNCHANGED exceptSensors

\* _read_sensors_sync(), the sensor step of the main loop.
ReadSensorsSync ==
    /\ sread.phase = 2
    /\ GuardedRead("loop", 2)
    /\ UNCHANGED exceptSensors

NextSensors ==
    ReadAll \/ ResetErrorCounts \/ SeedSensorData \/ ReadSensorsSync

(***************************************************************************)
(* drivers/controller_driver.py: FMTransmitterRDA5807                      *)
(***************************************************************************)
\* A float is held as the integer number of units of 2^-17 MHz it is worth:
\* the spacing of single-precision floats (24-bit significand, the float
\* type of MicroPython on the RP2040) between 64.0 and 128.0.
FloatOne == 2 ^ 17
Significand == 2 ^ 24

\* The float nearest to the decimal number tenths/10 (round half to even),
\* which is what a literal, float(text) or json.load yields for it.
FloatOf(tenths) ==
    LET q == (tenths * FloatOne) \div 10
        r == (tenths * FloatOne) % 10
    IN  IF r < 5 THEN q
        ELSE IF r > 5 THEN q + 1
        ELSE IF q % 2 = 0 THEN q ELSE q + 1

\* The float result of x * 10 for 0 <= x <= 20.0: the exact product, rounded
\* to 24 significant bits (the product is below 2^25 units).
FloatMul10(x) ==
    LET p == 10 * x
    IN  IF p < Significand THEN p
        ELSE IF p % 2 = 0 THEN p
        ELSE IF (p \div 2) % 2 = 0 THEN p - 1 ELSE p + 1

\* int(x) of a non-negative float.
FloatToInt(x) == x \div FloatOne

Max(a, b) == IF a >= b THEN a ELSE b
Min(a, b) == IF a <= b THEN a ELSE b

\* Bitwise and / or of two non-negative integers.
RECURSIVE BitAnd(_, _)
BitAnd(a, b) ==
    IF a = 0 \/ b = 0 THEN 0
    ELSE (a % 2) * (b % 2) + 2 * BitAnd(a \div 2, b \div 2)

RECURSIVE BitOr(_, _)
BitOr(a, b) ==
    IF a = 0 THEN b
    ELSE IF b = 0 THEN a
    ELSE Max(a % 2, b % 2) + 2 * BitOr(a \div 2, b \div 2)

\* "int((freq_mhz - 88.0) * 10) + 0x1000": the subtraction of two floats
\* of the same binade is exact.
ChannelCode(freq_mhz) ==
    FloatToInt(FloatMul10(freq_mhz - FloatOf(880))) + 4096

\* "(reg03 & 0xFE00) | freq_int"
FrequencyWord(reg03, freq_int) == BitOr(BitAnd(reg03, 65024), freq_int)

\* "max(88.0, min(108.0, freq_mhz))"
ClampFrequency(freq_mhz) == Max(FloatOf(880), Min(FloatOf(1080), freq_mhz))

\* FMTransmitterRDA5807.__init__
NewTransmitter ==
    [ initialized  |-> FALSE,
      frequency    |-> FloatOf(1005),
      volume       |-> 7,
      muted        |-> FALSE,
      error_count  |-> 0,
      last_command |-> 0 ]

\* The frequencies the model requests, in tenths of MHz: 80.0, 100.5 and
\* 120.0, and every tenth within RequestSpan of either end of the band.
Requests ==
    {800, 1005, 1200}
        \cup ((880 - RequestSpan)..(880 + RequestSpan))
        \cup ((1080 - RequestSpan)..(1080 + RequestSpan))

\* No call made yet. A call's record: its name (op), its position in the
\* sequence of calls (n), its argument (req), its result (ret), the channel
\* code computed (code), the value _read_reg returned (read), the 16-bit
\* value _write_reg put on the bus (wrote, -1 when nothing was written),
\* the bus transfers that succeeded, in order, as <<"r" or "w", register,
\* value>> (bus), whether a bus transfer failed (bus_error), the object's
\* fields before the call (before) and the dictionary get_status returned
\* (status).
NoFmCall ==
    [op |-> "none", n |-> 0, req |-> 0, ret |-> FALSE, code |-> 0,
     read |-> 0, wrote |-> -1, bus |-> <<>>, bus_error |-> FALSE,
     before |-> NewTransmitter, status |-> EmptyDict]

\* The chip's registers 0x02, 0x03, 0x05 after power-up, with whatever the
\* channel and volume registers hold.
InitFM ==
    /\ fm = NewTransmitter
    /\ \E hi \in {0, 512, 65024}, vol \in {0, 34991, 65535} :
          regs = [r \in {2, 3, 5} |->
                     IF r = 3 THEN hi ELSE IF r = 5 THEN vol ELSE 0]
    /\ fmop = NoFmCall

\* initialize(): the reset, enable and default writes, in order; the first
\* one that fails on the bus (fail_at, 0: none) raises and initialize()
\* returns False. The set_frequency and set_volume calls that follow find
\* initialized still False and return False without touching the bus;
\* their results are not looked at.
FmInitialize ==
    \E fail_at \in 0..3 :
        LET writes == << <<"w", 2, 2>>, <<"w", 2, 32769>>, <<"w", 3, 0>> >>
            done   == IF fail_at = 0 THEN writes
                      ELSE SubSeq(writes, 1, fail_at - 1)
        IN  /\ ~fm.initialized
            /\ fmop.n < MaxFmOps
            /\ fm' = [fm EXCEPT !.initialized = (fail_at = 0)]
            /\ regs' = [r \in DOMAIN regs |->
                           IF r = 3 /\ Len(done) >= 3 THEN 0
                           ELSE IF r = 2 /\ Len(done) >= 2 THEN 32769
                           ELSE IF r = 2 /\ Len(done) >= 1 THEN 2
                           ELSE regs[r]]
            /\ fmop' = [NoFmCall EXCEPT !.op = "initialize",
                            !.n = fmop.n + 1, !.ret = (fail_at = 0),
                            !.bus = done, !.bus_error = (fail_at # 0),
                            !.before = fm]
            /\ UNCHANGED exceptFM

\* What one setter call leaves behind. A register read that fails on the
\* bus is swallowed by _read_reg and yields 0; a write that fails raises,
\* the except clause counts one error and the call returns False.
\* field/cached: the attribute the call sets and its new value.
SetterCall(op, req, reg, code, read_ok, write_ok, value, field, cached) ==
    LET reads == IF read_ok THEN << <<"r", reg, regs[reg]>> >> ELSE <<>>
        call  == [NoFmCall EXCEPT !.op = op, !.n = fmop.n + 1, !.req = req,
                                  !.code = code, !.before = fm,
                                  !.read = IF read_ok THEN regs[reg] ELSE 0,
                                  !.bus_error = ~read_ok \/ ~write_ok]
    IN  IF write_ok
        THEN /\ regs' = [regs EXCEPT ![reg] = value]
             /\ fm' = [fm EXCEPT ![field] = cached,
                                 !.last_command = fmop.n + 1]
             /\ fmop' = [call EXCEPT !.ret = TRUE, !.wrote = value,
                                     !.bus = reads \o << <<"w", reg, value>> >>]
        ELSE /\ regs' = regs
             /\ fm' = [fm EXCEPT !.error_count = @ + 1]
             /\ fmop' = [call EXCEPT !.bus = reads]

\* A setter called on a device that is not initialized: "return False".
SetterRefused(op, req) ==
    /\ fmop' = [NoFmCall EXCEPT !.op = op, !.n = fmop.n + 1, !.req = req,
                                !.before = fm]
    /\ UNCHANGED <<fm, regs>>

\* set_frequency(freq_mhz), freq_mhz being the float for tenths/10.
SetFrequency ==
    \E tenths \in Requests, read_ok \in BOOLEAN, write_ok \in BOOLEAN :
        /\ fmop.n < MaxFmOps
        /\ IF ~fm.initialized
           THEN SetterRefused("set_frequency", tenths)
           ELSE LET freq_mhz == ClampFrequency(FloatOf(tenths))
                    freq_int == ChannelCode(freq_mhz)
                    reg03    == IF read_ok THEN regs[3] ELSE 0
                IN  SetterCall("set_frequency", tenths, 3, freq_int,
                               read_ok, write_ok,
                               FrequencyWord(reg03, freq_int) % 65536,
                               "frequency", freq_mhz)
        /\ UNCHANGED exceptFM

\* The volumes the model requests: VolumeSpan below 0 to VolumeSpan above 15.
Volumes == (0 - VolumeSpan)..(15 + VolumeSpan)

\* "max(0, min(15, volume))"
ClampVolume(volume) == Max(0, Min(15, volume))

VolumeWord_NoMask(reg05, volume) == BitOr(reg05, volume)

\* "(reg05 & 0xFFF0) | volume"
VolumeWord(reg05, volume) == BitOr(BitAnd(reg05, 65520), volume)

\* set_volume(volume)
SetVolume ==
    \E v \in Volumes, read_ok \in BOOLEAN, write_ok \in BOOLEAN :
        /\ fmop.n < MaxFmOps
        /\ IF ~fm.initialized
           THEN SetterRefused("set_volume", v)
           ELSE LET volume == ClampVolume(v)
                    reg05  == IF read_ok THEN regs[5] ELSE 0
                IN  SetterCall("set_volume", v, 5, 0, read_ok, write_ok,
                               VolumeWord(reg05, volume) % 65536,
                               "volume", volume)
        /\ UNCHANGED exceptFM

\* set_mute(muted): "reg02 |= 0x4000" or "reg02 &= ~0x4000".
SetMute ==
    \E muted \in BOOLEAN, read_ok \in BOOLEAN, write_ok \in BOOLEAN :
        /\ fmop.n < MaxFmOps
        /\ IF ~fm.initialized
           THEN SetterRefused("set_mute", IF muted THEN 1 ELSE 0)
           ELSE LET reg02 == IF read_ok THEN regs[2] ELSE 0
                    value == IF muted THEN BitOr(reg02, 16384)
                             ELSE reg02 - BitAnd(reg02, 16384)
                IN  SetterCall("set_mute", IF muted THEN 1 ELSE 0, 2, 0,
                               read_ok, write_ok, value, "muted", muted)
        /\ UNCHANGED exceptFM

\* get_status(), with the entries of the returned dictionary that vary
\* (name, address and detected are fixed at construction). reg0A is what
\* the status register holds; a read that
\* fails on the bus is swallowed by _read_reg and yields 0, so the except
\* clause of get_status is not entered by it.
GetStatus ==
    \E reg0A \in {0, 21504}, read_ok \in BOOLEAN :
        LET value  == IF read_ok THEN reg0A ELSE 0
            common == [k \in {"initialized", "error_count"} |->
                          IF k = "initialized" THEN fm.initialized
                          ELSE fm.error_count]
            cached == [k \in {"frequency", "volume", "muted", "stereo",
                              "rssi", "last_command"} |->
                          CASE k = "frequency"    -> fm.frequency
                            [] k = "volume"       -> fm.volume
                            [] k = "muted"        -> fm.muted
                            [] k = "stereo"       -> BitAnd(value, 1024) # 0
                            [] k = "rssi"         -> (value \div 512) % 128
                            [] k = "last_command" -> fm.last_command]
        IN  /\ fmop.n < MaxFmOps
            /\ fmop' = [NoFmCall EXCEPT
                            !.op = "get_status", !.n = fmop.n + 1,
                            !.ret = TRUE, !.before = fm,
                            !.read = value,
                            !.bus_error = fm.initialized /\ ~read_ok,
                            !.bus = IF fm.initialized /\ read_ok
                                    THEN << <<"r", 10, reg0A>> >> ELSE <<>>,
                            !.status = IF fm.initialized
                                       THEN common @@ cached ELSE common]
            /\ UNCHANGED <<fm, regs>>
            /\ UNCHANGED exceptFM

NextFM ==
    FmInitialize \/ SetFrequency \/ SetVolume \/ SetMute \/ GetStatus

(***************************************************************************)
(* drivers/time_driver.py: TimeDriver                                      *)
(***************************************************************************)
\* The RTC tuple (year, month, day, weekday, hour, minute, second); the
\* eighth element, the sub-second count, plays no part.
DateTime(y, mo, d, wd, h, mi, s) ==
    [year |-> y, month |-> mo, day |-> d, weekday |-> wd,
     hour |-> h, minute |-> mi, second |-> s]

\* TimeDriver.__init__ up to the call of _initialize(), for a config with
\* the given timezone and auto_sync and no manual_* entries.
NewTimeDriver(tz, auto, net) ==
    [ timezone          |-> tz,
      auto_sync         |-> auto,
      network_driver    |-> net,
      last_sync_attempt |-> 0,
      last_sync_success |-> 0,
      manual_time_set   |-> FALSE,
      manual_year       |-> 2024,
      manual_month      |-> 1,
      manual_day        |-> 1,
      manual_hour       |-> 12,
      manual_minute     |-> 0,
      manual_second     |-> 0,
      initialized       |-> FALSE,
      error_count       |-> 0,
      has_valid_time    |-> FALSE ]

\* No call made yet. A call's record: its name (op), its position (n), its
\* arguments (args), its boolean result (ret), the tuple handed to
\* rtc.datetime() (wrote; year 0 when none was), the number get_timestamp
\* returned (stamp), utime.time() as the call saw it (wall), whether the
\* call reached network_driver.sync_ntp_time (delegated) and whether the
\* RTC could be read (rtc_ok).
NoDateTime == DateTime(0, 0, 0, 0, 0, 0, 0)
NoTimeCall ==
    [op |-> "none", n |-> 0, args |-> NoDateTime, ret |-> FALSE,
     wrote |-> NoDateTime, stamp |-> 0, wall |-> 0, delegated |-> FALSE,
     rtc_ok |-> TRUE]

\* The range checks at the head of set_manual_time.
ValidManualArgs(a) ==
    /\ 2020 <= a.year /\ a.year <= 2100
    /\ 1 <= a.month /\ a.month <= 12
    /\ 1 <= a.day /\ a.day <= 31
    /\ 0 <= a.hour /\ a.hour <= 23
    /\ 0 <= a.minute /\ a.minute <= 59
    /\ 0 <= a.second /\ a.second <= 59

\* Zeller's congruence as set_manual_time writes it, on the month and year
\* it has already shifted: 0 = Saturday .. 6 = Friday.
Zeller(year, month, day) ==
    LET century         == year \div 100
        year_in_century == year % 100
    IN  (day + ((13 * (month + 1)) \div 5) + year_in_century
             + (year_in_century \div 4) + (century \div 4) - (2 * century)) % 7

\* "weekday = (weekday + 1) % 7"
StoredWeekday(zeller) == (zeller + 1) % 7

\* What the RTC holds after accepting a tuple whose month is 13 or 14: the
\* same instant with the month brought back into 1..12.
Normalised(t) ==
    IF t.month > 12 THEN [t EXCEPT !.month = @ - 12, !.year = @ + 1] ELSE t

\* set_manual_time(year, month, day, hour, minute, second) on driver t.
\* "month" and "year" are reassigned for Zeller's congruence when month < 3
\* and the reassigned values are what is written and remembered.
\* rtc_accepts: whether rtc.datetime() takes the tuple or raises.
\* Result: the driver and the RTC after the call, the returned value and
\* the tuple handed to the RTC.
set_manual_time(t, r, a, rtc_accepts) ==
    IF ~ValidManualArgs(a)
    THEN [td |-> t, rtc |-> r, ret |-> FALSE, wrote |-> NoDateTime]
    ELSE
    LET month   == IF a.month < 3 THEN a.month + 12 ELSE a.month
        year    == IF a.month < 3 THEN a.year - 1 ELSE a.year
        weekday == StoredWeekday(Zeller(year, month, a.day))
        tuple   == DateTime(year, month, a.day, weekday,
                            a.hour, a.minute, a.second)
    IN  IF rtc_accepts
        THEN [ td |-> [t EXCEPT !.manual_year = year,
                                !.manual_month = month,
                                !.manual_day = a.day,
                                !.manual_hour = a.hour,
                                !.manual_minute = a.minute,
                                !.manual_second = a.second,
                                !.manual_time_set = TRUE,
                                !.has_valid_time = TRUE],
               rtc |-> Normalised(tuple), ret |-> TRUE, wrote |-> tuple ]
        ELSE [ td |-> [t EXCEPT !.error_count = @ + 1],
               rtc |-> r, ret |-> FALSE, wrote |-> tuple ]

\* Whether the RTC may refuse the tuple set_manual_time builds from a: a
\* month in 1..12 is taken; a month of 13 or 14 is refused by some builds
\* (OSError) and taken by others.
RtcOutcomes(a) == IF a.month < 3 THEN {TRUE, FALSE} ELSE {TRUE}

\* The times of day the model uses.
TimesOfDay == { <<0, 0, 0>>, <<23, 59, 59>> }

\* Arguments of set_manual_time: every combination inside the validated
\* ranges the sets above give, and tuples with one argument just outside.
ManualArgs ==
    { DateTime(y, mo, d, 0, 12, 0, 0) :
        y \in {2020, 2024, 2100}, mo \in 1..12, d \in {1, 29} }
    \cup { DateTime(2024, 6, 15, 0, t[1], t[2], t[3]) : t \in TimesOfDay }
    \cup { DateTime(y, 6, 15, 0, 12, 0, 0) : y \in {2019, 2101} }
    \cup { DateTime(2024, mo, 15, 0, 12, 0, 0) : mo \in {0, 13} }
    \cup { DateTime(2024, 6, d, 0, 12, 0, 0) : d \in {0, 31, 32} }
    \cup { DateTime(2024, 6, 15, 0, 24, 0, 0),
           DateTime(2024, 6, 15, 0, 12, -1, 0),
           DateTime(2024, 6, 15, 0, 12, 0, 60) }

\* What the RTC holds when the driver is constructed.
InitialClocks ==
    { DateTime(y, mo, d, 0, t[1], t[2], t[3]) :
        y \in {1970, 2000, 2021}, mo \in 1..12, d \in {1, 31},
        t \in TimesOfDay }

\* Observer of the sync calls: the time of the last call that passed the
\* rate limiter (-1: none), the time of the last delegation (-1: none),
\* whether force_sync was called since each, the network outcome of the
\* last call, and the number of clock advances made.
NoSyncHistory ==
    [ attempt_at |-> -1, forced_since_attempt |-> FALSE,
      delegated_at |-> -1, forced_since_delegation |-> FALSE,
      since_attempt |-> -1, since_delegation |-> -1,
      auto |-> FALSE, bound |-> FALSE, net |-> "none", advances |-> 0 ]

InitTime ==
    /\ \E tz \in {0, 1} : td = NewTimeDriver(tz, TRUE, TRUE)
    /\ rtc \in InitialClocks
    /\ clock = 0
    /\ tmop = NoTimeCall
    /\ ntp = NoSyncHistory

\* _initialize(), the last statement of __init__: an RTC before 2021 is set
\* from the manual_* values. When the RTC cannot be read the except clause
\* counts an error and tries to write 2024-01-01 12:00:00; initialized
\* stays false.
TimeInitialize ==
    /\ tmop.n = 0
    /\ \E rtc_reads \in BOOLEAN, rtc_accepts \in BOOLEAN :
        IF ~rtc_reads
        THEN /\ td' = [td EXCEPT !.error_count = @ + 1,
                                 !.has_valid_time = rtc_accepts]
             /\ rtc' = IF rtc_accepts THEN DateTime(2024, 1, 1, 0, 12, 0, 0)
                       ELSE rtc
             /\ tmop' = [NoTimeCall EXCEPT !.op = "__init__", !.n = 1,
                                           !.rtc_ok = FALSE]
        ELSE IF rtc.year < 2021
        THEN LET a == DateTime(td.manual_year, td.manual_month, td.manual_day,
                               0, td.manual_hour, td.manual_minute,
                               td.manual_second)
                 r == set_manual_time(td, rtc, a, rtc_accepts)
             IN  /\ rtc_accepts \in RtcOutcomes(a)
                 /\ td' = [r.td EXCEPT !.has_valid_time = r.ret,
                                       !.initialized = TRUE]
                 /\ rtc' = r.rtc
                 /\ tmop' = [NoTimeCall EXCEPT !.op = "__init__", !.n = 1,
                                 !.args = a, !.ret = r.ret, !.wrote = r.wrote]
        ELSE /\ rtc_accepts
             /\ td' = [td EXCEPT !.has_valid_time = TRUE,
                                 !.manual_time_set = TRUE,
                                 !.initialized = TRUE]
             /\ rtc' = rtc
             /\ tmop' = [NoTimeCall EXCEPT !.op = "__init__", !.n = 1,
                                           !.ret = TRUE]
    /\ UNCHANGED <<clock, ntp>>
    /\ UNCHANGED exceptTime

\* set_manual_time(year, month, day, hour, minute, second)
SetManualTime ==
    \E a \in ManualArgs, rtc_accepts \in BOOLEAN :
        /\ tmop.n > 0 /\ tmop.n < MaxClockOps
        /\ rtc_accepts \in RtcOutcomes(a)
        /\ LET r == set_manual_time(td, rtc, a, rtc_accepts) IN
            /\ td' = r.td
            /\ rtc' = r.rtc
            /\ tmop' = [NoTimeCall EXCEPT !.op = "set_manual_time",
                            !.n = tmop.n + 1, !.args = a, !.ret = r.ret,
                            !.wrote = r.wrote]
        /\ UNCHANGED <<clock, ntp>>
        /\ UNCHANGED exceptTime

\* get_timestamp returns utime.time() when it is later than this.
PLAUSIBLE_EPOCH == 1609459200

\* "(y % 4 == 0 and y % 100 != 0) or (y % 400 == 0)"
IsLeapYear(y) == (y % 4 = 0 /\ y % 100 # 0) \/ (y % 400 = 0)

YearLength_NoLeap(y) == 365

\* "366 if leap else 365"
YearLength(y) == IF IsLeapYear(y) THEN 366 ELSE 365

\* "for y in range(1970, year): days += ..."
RECURSIVE DaysBeforeYear(_)
DaysBeforeYear(year) ==
    IF year <= 1970 THEN 0
    ELSE DaysBeforeYear(year - 1) + YearLength(year - 1)

\* The list days_in_month.
days_in_month == <<31, 28, 31, 30, 31, 30, 31, 31, 30, 31, 30, 31>>

\* "for m in range(1, month): days += days_in_month[m-1]", with the leap
\* day after February; month is at most 13 here.
RECURSIVE DaysBeforeMonth(_, _)
DaysBeforeMonth(year, month) ==
    IF month <= 1 THEN 0
    ELSE DaysBeforeMonth(year, month - 1) + days_in_month[month - 1]
            + (IF month - 1 = 2 /\ IsLeapYear(year) THEN 1 ELSE 0)

\* get_current_time() when the RTC can be read: the timezone moves the
\* hour, wrapping at 24 without touching the date.
ApplyTimezone(t, tz) ==
    IF tz = 0 THEN t
    ELSE LET hour == t.hour + tz
         IN  [t EXCEPT !.hour = IF hour >= 24 THEN hour - 24
                                ELSE IF hour < 0 THEN hour + 24
                                ELSE hour]

\* get_current_time() when the RTC cannot be read and utime.time() is not
\* plausible: the manual_* values.
ManualTuple(t) ==
    DateTime(t.manual_year, t.manual_month, t.manual_day, 0,
             t.manual_hour, t.manual_minute, t.manual_second)

\* The manual path of get_timestamp on the tuple cur; indexing
\* days_in_month past its end raises and the except clause returns 0.
ManualTimestamp(cur) ==
    IF cur.month - 1 > Len(days_in_month) THEN 0
    ELSE (DaysBeforeYear(cur.year) + DaysBeforeMonth(cur.year, cur.month)
            + cur.day - 1) * 86400
         + cur.hour * 3600 + cur.minute * 60 + cur.second

\* What utime.time() returns in the model's calls.
Walls == {0, PLAUSIBLE_EPOCH, PLAUSIBLE_EPOCH + 1}

\* get_timestamp(). The model's integers are 32 bits wide, the target's
\* are not: the call is made for years up to LastStampYear.
GetTimestamp ==
    \E wall \in Walls, rtc_ok \in BOOLEAN :
        /\ tmop.n > 0 /\ tmop.n < MaxClockOps
        /\ IF wall > PLAUSIBLE_EPOCH
           THEN /\ rtc_ok
                /\ td' = td
                /\ tmop' = [NoTimeCall EXCEPT !.op = "get_timestamp",
                                !.n = tmop.n + 1, !.wall = wall,
                                !.stamp = wall]
           ELSE LET cur == IF rtc_ok THEN ApplyTimezone(rtc, td.timezone)
                           ELSE ManualTuple(td)
                IN  /\ cur.year <= LastStampYear
                    /\ td' = IF rtc_ok THEN td
                             ELSE [td EXCEPT !.error_count = @ + 1]
                    /\ tmop' = [NoTimeCall EXCEPT !.op = "get_timestamp",
                                    !.n = tmop.n + 1, !.wall = wall,
                                    !.rtc_ok = rtc_ok,
                                    !.stamp = ManualTimestamp(cur)]
        /\ UNCHANGED <<rtc, clock, ntp>>
        /\ UNCHANGED exceptTime

\* "while new_day > days_in_month[month - 1]": the day is carried into the
\* following months, February taking its length from the year reached.
RECURSIVE CarryMonths(_, _, _)
CarryMonths(year, month, day) ==
    LET length == IF month = 2 /\ IsLeapYear(year) THEN 29
                  ELSE days_in_month[month]
    IN  IF day > length
        THEN IF month = 12 THEN CarryMonths(year + 1, 1, day - length)
             ELSE CarryMonths(year, month + 1, day - length)
        ELSE [year |-> year, month |-> month, day |-> day]

\* adjust_time(minutes) on driver t with the RTC holding r and readable:
\* the time get_current_time() returns is moved by floor division and
\* modulo on minutes, hours and days, days above the month's length are
\* carried forward, nothing is borrowed from the month before, and the
\* result goes to set_manual_time. The timestamp the method computes on
\* the way is not used.
adjust_time(t, r, minutes, rtc_accepts) ==
    LET cur          == ApplyTimezone(r, t.timezone)
        new_minute   == cur.minute + minutes
        new_hour     == cur.hour + (new_minute \div 60)
        new_day      == cur.day + (new_hour \div 24)
        date         == CarryMonths(cur.year, cur.month, new_day)
    IN  set_manual_time(t, r,
                        DateTime(date.year, date.month, date.day, 0,
                                 new_hour % 24, new_minute % 60, cur.second),
                        rtc_accepts)

\* The minute amounts the model adjusts by.
AdjustMinutes == {1, 90}

\* The time probe of the diagnostic, for any amount: adjust_time(m) and,
\* when it returned true, adjust_time(-m). The record keeps the time
\* get_current_time() gave before the first call (args), whether both
\* calls returned true (ret) and the tuple the last call wrote.
TestTime ==
    \E m \in AdjustMinutes, accepts1 \in BOOLEAN, accepts2 \in BOOLEAN :
        LET forth == adjust_time(td, rtc, m, accepts1)
            back  == adjust_time(forth.td, forth.rtc, 0 - m, accepts2)
            last  == IF forth.ret THEN back ELSE forth
        IN  /\ tmop.n > 0 /\ tmop.n < MaxClockOps
            /\ td.initialized
            /\ forth.wrote.year = 0 \/ accepts1 \in RtcOutcomes(forth.wrote)
            /\ IF forth.ret
               THEN back.wrote.year = 0 \/ accepts2 \in RtcOutcomes(back.wrote)
               ELSE accepts2
            /\ td' = last.td
            /\ rtc' = last.rtc
            /\ tmop' = [NoTimeCall EXCEPT !.op = "test_time",
                            !.n = tmop.n + 1,
                            !.args = ApplyTimezone(rtc, td.timezone),
                            !.ret = forth.ret /\ back.ret,
                            !.wrote = last.wrote]
            /\ UNCHANGED <<clock, ntp>>
            /\ UNCHANGED exceptTime

NextTime == TimeInitialize \/ SetManualTime \/ GetTimestamp \/ TestTime

\* sync_with_ntp refuses to run before this many milliseconds have passed
\* since last_sync_attempt.
SYNC_MIN_INTERVAL_MS == 300000

\* utime.ticks_ms()
ticks_ms == clock % TICKS_PERIOD

RateLimited_Never(current_time_ms, last_sync_attempt) == FALSE

\* "utime.ticks_diff(current_time_ms, self.last_sync_attempt) < 300000"
RateLimited(current_time_ms, last_sync_attempt) ==
    ticks_diff(current_time_ms, last_sync_attempt) < SYNC_MIN_INTERVAL_MS

\* What ntptime.settime() leaves in the RTC in the model's runs.
NtpTime == DateTime(2025, 6, 15, 6, 12, 0, 0)

\* The outcomes of the network side of one sync_with_ntp call:
\* is_connected() says no, says yes and sync_ntp_time then succeeds, fails
\* or raises, or is_connected() itself raises.
NetOutcomes == {"offline", "synced", "failed", "sync_raises", "probe_raises"}

\* sync_with_ntp() on driver t at tick value current_time_ms with network
\* outcome net. Result: the driver afterwards, the returned value, whether
\* the rate limiter was passed (attempt) and whether sync_ntp_time was
\* called (delegated).
sync_with_ntp(t, current_time_ms, net) ==
    LET quiet(t2, att) ==
            [td |-> t2, ret |-> FALSE, attempt |-> att, delegated |-> FALSE]
    IN
    IF ~t.auto_sync THEN quiet(t, FALSE)
    ELSE IF RateLimited(current_time_ms, t.last_sync_attempt)
    THEN quiet(t, FALSE)
    ELSE
    LET t1 == [t EXCEPT !.last_sync_attempt = current_time_ms] IN
    IF ~t.network_driver THEN quiet(t1, TRUE)
    ELSE IF net = "probe_raises"
    THEN quiet([t1 EXCEPT !.error_count = @ + 1], TRUE)
    ELSE IF net = "offline" THEN quiet(t1, TRUE)
    ELSE IF net = "synced"
    THEN [ td |-> [t1 EXCEPT !.last_sync_success = current_time_ms,
                             !.has_valid_time = TRUE],
           ret |-> TRUE, attempt |-> TRUE, delegated |-> TRUE ]
    ELSE [td |-> t1, ret |-> FALSE, attempt |-> TRUE, delegated |-> TRUE]

\* The history after a call with result r at time clock.
Recorded(h, t, r, net, forced) ==
    LET f_a == h.forced_since_attempt \/ forced
        f_d == h.forced_since_delegation \/ forced
    IN  [ attempt_at   |-> IF r.attempt THEN clock ELSE h.attempt_at,
          forced_since_attempt |-> IF r.attempt THEN FALSE ELSE f_a,
          delegated_at |-> IF r.delegated THEN clock ELSE h.delegated_at,
          forced_since_delegation |-> IF r.delegated THEN FALSE ELSE f_d,
          \* for this call: time since the previous attempt and the
          \* previous delegation when no force_sync came in between
          since_attempt |-> IF h.attempt_at >= 0 /\ ~f_a
                            THEN clock - h.attempt_at ELSE -1,
          since_delegation |-> IF h.delegated_at >= 0 /\ ~f_d
                               THEN clock - h.delegated_at ELSE -1,
          auto |-> t.auto_sync, bound |-> t.network_driver, net |-> net,
          advances |-> h.advances ]

\* How far the clock moves between calls.
ClockSteps ==
    {1, SYNC_MIN_INTERVAL_MS - 1, SYNC_MIN_INTERVAL_MS,
     TICKS_PERIOD \div 2, TICKS_PERIOD - SYNC_MIN_INTERVAL_MS}

InitSync ==
    /\ \E auto \in BOOLEAN, net \in BOOLEAN :
          td = [NewTimeDriver(0, auto, net) EXCEPT !.initialized = TRUE,
                                                   !.has_valid_time = TRUE,
                                                   !.manual_time_set = TRUE]
    /\ rtc = DateTime(2024, 6, 15, 1, 12, 0, 0)
    /\ clock = 0
    /\ tmop = [NoTimeCall EXCEPT !.op = "__init__", !.n = 1, !.ret = TRUE]
    /\ ntp = NoSyncHistory

\* Time passes; the model follows the clock for one and a half tick
\* periods.
Advance ==
    \E dt \in ClockSteps :
        /\ ntp.advances < MaxAdvances
        /\ clock <= TICKS_PERIOD
        /\ clock + dt <= TICKS_PERIOD + TICKS_PERIOD \div 2
        /\ clock' = clock + dt
        /\ ntp' = [ntp EXCEPT !.advances = @ + 1]
        /\ UNCHANGED <<td, rtc, tmop>>
        /\ UNCHANGED exceptTime

\* sync_with_ntp()
SyncWithNtp ==
    \E net \in NetOutcomes :
        /\ tmop.n < MaxSyncOps
        /\ LET r == sync_with_ntp(td, ticks_ms, net) IN
            /\ td' = r.td
            /\ rtc' = IF r.ret THEN NtpTime ELSE rtc
            /\ tmop' = [NoTimeCall EXCEPT !.op = "sync_with_ntp",
                            !.n = tmop.n + 1, !.ret = r.ret,
                            !.delegated = r.delegated]
            /\ ntp' = Recorded(ntp, td, r, net, FALSE)
        /\ UNCHANGED clock
        /\ UNCHANGED exceptTime

\* force_sync(): "self.last_sync_attempt = 0", then sync_with_ntp().
ForceSync ==
    \E net \in NetOutcomes :
        /\ tmop.n < MaxSyncOps
        /\ LET t0 == [td EXCEPT !.last_sync_attempt = 0]
               r  == sync_with_ntp(t0, ticks_ms, net)
           IN
            /\ td' = r.td
            /\ rtc' = IF r.ret THEN NtpTime ELSE rtc
            /\ tmop' = [NoTimeCall EXCEPT !.op = "force_sync",
                            !.n = tmop.n + 1, !.ret = r.ret,
                            !.delegated = r.delegated]
            /\ ntp' = Recorded(ntp, td, r, net, TRUE)
        /\ UNCHANGED clock
        /\ UNCHANGED exceptTime

\* enable_auto_sync(enabled)
EnableAutoSync ==
    \E enabled \in BOOLEAN :
        /\ tmop.n < MaxSyncOps
        /\ td' = [td EXCEPT !.auto_sync = enabled]
        /\ tmop' = [NoTimeCall EXCEPT !.op = "enable_auto_sync",
                                      !.n = tmop.n + 1]
        /\ UNCHANGED <<rtc, clock, ntp>>
        /\ UNCHANGED exceptTime

NextSync == Advance \/ SyncWithNtp \/ ForceSync \/ EnableAutoSync

(***************************************************************************)
(* drivers/networking_driver.py: NetworkingDriver and its WiFi managers    *)
(***************************************************************************)
\* The configured wifi.networks lists the model uses: out of priority
\* order, with a missing priority, with equal priorities, with entries
\* that have no ssid or an empty one, and the empty list.
NetworkLists ==
    { <<>>,
      << [ssid |-> "home", priority |-> 2],
         [ssid |-> "office", priority |-> 1] >>,
      << [ssid |-> "home"],
         [ssid |-> "guest", priority |-> 1000],
         [ssid |-> "office", priority |-> 5] >>,
      << [ssid |-> "home", priority |-> 1],
         [priority |-> 0],
         [ssid |-> "office", priority |-> 1] >>,
      << [ssid |-> "", priority |-> 1],
         [ssid |-> "home", priority |-> 2] >>,
      << [priority |-> 1] >> }

\* The WiFi manager NetworkingDriver holds after _initialize_wifi: "none"
\* when WiFi is disabled, the board has none or initialize() failed.
NewWifiManager(type, networks) ==
    [ type         |-> type,
      initialized  |-> type # "none",
      connected    |-> FALSE,
      current_ssid |-> None,
      error_count  |-> 0,
      networks     |-> networks ]

\* "key=lambda x: x.get('priority', 999)"
PriorityKey_Zero(n) == 0

PriorityKey(n) == IF "priority" \in DOMAIN n THEN n.priority ELSE 999

\* sorted(network_list, key=...): the orders a sort by that key can give.
\* Entries with equal keys keep their order under a stable sort and may
\* change it under one that is not; both are allowed for.
SortedOrders(network_list) ==
    { p \in [1..Len(network_list) -> 1..Len(network_list)] :
        /\ \A i, j \in 1..Len(network_list) : i # j => p[i] # p[j]
        /\ \A i, j \in 1..Len(network_list) :
              i < j => PriorityKey(network_list[p[i]])
                          <= PriorityKey(network_list[p[j]]) }

\* What _connect_single can do with one network: return True, return
\* False, or catch an exception, count it and return False.
ConnectOutcomes == {"connected", "timeout", "error"}

\* The entries _connect_single can be called for: "if not ssid: continue"
\* passes over the others.
Candidates(network_list) ==
    { i \in 1..Len(network_list) :
        Get(network_list[i], "ssid") \notin {None, ""} }

\* The loop over sorted_networks from position pos on. outcome[i] is what
\* _connect_single does with entry i of the list. Result: whether a
\* network connected, its ssid, the list indices handed to
\* _connect_single in order, and the errors counted.
RECURSIVE TryFrom(_, _, _, _)
TryFrom(network_list, order, outcome, pos) ==
    IF pos > Len(order)
    THEN [ret |-> FALSE, ssid |-> None, tried |-> <<>>, errors |-> 0]
    ELSE LET i    == order[pos]
             ssid == Get(network_list[i], "ssid")
         IN  IF i \notin Candidates(network_list)
             THEN TryFrom(network_list, order, outcome, pos + 1)
             ELSE IF outcome[i] = "connected"
             THEN [ret |-> TRUE, ssid |-> ssid, tried |-> <<i>>,
                   errors |-> 0]
             ELSE LET rest == TryFrom(network_list, order, outcome, pos + 1)
                  IN  [rest EXCEPT !.tried = <<i>> \o @,
                                   !.errors = @ + (IF outcome[i] = "error"
                                                   THEN 1 ELSE 0)]

\* connect_to_networks(network_list) on manager m. existing: the ssid
\* check_existing_connection() reports (None: no association), consulted
\* by the ESP8285 manager only. Result: the manager afterwards, the
\* returned value, the indices tried, and whether an existing association
\* ended the call before any attempt.
connect_to_networks(m, network_list, existing, order, outcome) ==
    IF ~m.initialized \/ network_list = <<>>
    THEN [m |-> m, ret |-> FALSE, tried |-> <<>>, short |-> FALSE]
    ELSE IF /\ m.type = "esp8285"
            /\ existing # None
            /\ \E i \in 1..Len(network_list) :
                  Get(network_list[i], "ssid") = existing
    THEN [ m |-> [m EXCEPT !.connected = TRUE, !.current_ssid = existing],
           ret |-> TRUE, tried |-> <<>>, short |-> TRUE ]
    ELSE LET r == TryFrom(network_list, order, outcome, 1)
         IN  [ m |-> [m EXCEPT !.connected = r.ret,
                               !.current_ssid = IF r.ret THEN r.ssid ELSE @,
                               !.error_count = @ + r.errors],
               ret |-> r.ret, tried |-> r.tried, short |-> FALSE ]

\* time.sleep(2) between attempts.
RETRY_PAUSE_S == 2

PauseDue_Always(attempt, max_attempts) == TRUE

\* "if attempt < max_attempts - 1"
PauseDue(attempt, max_attempts) == attempt < max_attempts - 1

\* Position and observer of auto_connect: where the call is, its argument,
\* the loop variable, the connect cycles and pauses made so far in order,
\* the result of each cycle, the value returned, and for the last cycle
\* what _connect_single did with each entry it was given, the indices of
\* those entries in order and whether an existing association ended it.
NoConnectCall ==
    [ pc |-> "idle", n |-> 0, max_attempts |-> 0, attempt |-> 0,
      log |-> <<>>, results |-> <<>>, ret |-> FALSE, returned |-> FALSE,
      outcome |-> <<>>, tried |-> <<>>, short |-> FALSE ]

InitNet ==
    /\ \E type \in {"none", "pico_w", "esp8285"}, networks \in NetworkLists :
          wifi = NewWifiManager(type, networks)
    /\ conn = NoConnectCall

\* auto_connect(max_attempts): the two guards, then the loop is entered.
AutoConnect ==
    \E max_attempts \in 0..MaxAttempts :
        /\ conn.pc = "idle"
        /\ conn.n < MaxNetOps
        /\ conn' = [NoConnectCall EXCEPT
                       !.n = conn.n + 1,
                       !.max_attempts = max_attempts,
                       !.pc = IF wifi.type = "none" \/ wifi.networks = <<>>
                              THEN "idle" ELSE "loop",
                       !.returned = wifi.type = "none"
                                    \/ wifi.networks = <<>>]
        /\ UNCHANGED wifi
        /\ UNCHANGED exceptNet

\* One pass of "for attempt in range(max_attempts)": connect_to_networks,
\* return True when it succeeds, otherwise go to the pause or to the next
\* pass.
Attempt ==
    /\ conn.pc = "loop"
    /\ conn.attempt < conn.max_attempts
    /\ \E existing \in {None, "office", "cafe"},
          order \in SortedOrders(wifi.networks),
          outcome \in [Candidates(wifi.networks) -> ConnectOutcomes] :
        LET r == connect_to_networks(wifi, wifi.networks, existing, order,
                                     outcome)
            seen == [conn EXCEPT
                        !.log = Append(@, [ev |-> "connect", s |-> 0]),
                        !.results = Append(@, r.ret),
                        !.outcome = [i \in {r.tried[k] : k \in 1..Len(r.tried)}
                                        |-> outcome[i]],
                        !.tried = r.tried,
                        !.short = r.short]
        IN  /\ wifi.type = "esp8285" \/ existing = None
            /\ r.m.error_count <= MaxWifiErrors
            /\ wifi' = r.m
            /\ conn' = IF r.ret
                       THEN [seen EXCEPT !.pc = "idle", !.ret = TRUE,
                                         !.returned = TRUE]
                       ELSE IF PauseDue(conn.attempt, conn.max_attempts)
                       THEN [seen EXCEPT !.pc = "pause"]
                       ELSE [seen EXCEPT !.attempt = @ + 1]
    /\ UNCHANGED exceptNet

\* time.sleep(2), then the next pass.
Pause ==
    /\ conn.pc = "pause"
    /\ conn' = [conn EXCEPT
                   !.log = Append(@, [ev |-> "sleep", s |-> RETRY_PAUSE_S]),
                   !.attempt = @ + 1,
                   !.pc = "loop"]
    /\ UNCHANGED wifi
    /\ UNCHANGED exceptNet

\* The loop is exhausted: "return False".
GiveUp ==
    /\ conn.pc = "loop"
    /\ conn.attempt >= conn.max_attempts
    /\ conn' = [conn EXCEPT !.pc = "idle", !.ret = FALSE, !.returned = TRUE]
    /\ UNCHANGED wifi
    /\ UNCHANGED exceptNet

NextNet == AutoConnect \/ Attempt \/ Pause \/ GiveUp

(***************************************************************************)
(* drivers/networking_driver.py: ESP8285WifiManager, the AT exchange       *)
(***************************************************************************)
\* Text on the serial line is a sequence of characters. The texts of the
\* AT dialogue the model uses: the tokens _send_at_command looks for, the
\* prompt, and replies of the module to "AT+CWJAP?".
AT ==
    [ OK |-> <<"O", "K">>,
      SEND_OK |-> <<"S", "E", "N", "D", " ", "O", "K">>,
      ERROR |-> <<"E", "R", "R", "O", "R">>,
      PROMPT |-> <<">">>,
      JAP_HOME |-> <<"+", "J", "A", "P", ":", "h", "o", "m", "e",
                     "\r", "\n", "O", "K", "\r", "\n">>,
      JAP_CAFE |-> <<"+", "J", "A", "P", ":", "c", "a", "f", "e",
                     "\r", "\n", "O", "K", "\r", "\n">>,
      NO_AP |-> <<"N", "o", " ", "A", "P", "\r", "\n", "O", "K">>,
      NOISE |-> <<"<ff>", "<fe>">>,
      HOME |-> <<"h", "o", "m", "e">> ]

\* "t in s" on str.
Contains(s, t) ==
    \E i \in 1..(Len(s) - Len(t) + 1) : SubSeq(s, i, i + Len(t) - 1) = t

\* str.strip(): leading and trailing whitespace removed.
strip(s) ==
    LET keep == {i \in 1..Len(s) : s[i] \notin {" ", "\t", "\r", "\n"}}
    IN  IF keep = {} THEN <<>>
        ELSE SubSeq(s, CHOOSE i \in keep : \A j \in keep : i <= j,
                       CHOOSE i \in keep : \A j \in keep : i >= j)

\* data.decode('utf-8', 'ignore'): the bytes that are no valid text are
\* dropped (written "<ff>", "<fe>" here), the others are kept.
decode(data) == SelectSeq(data, LAMBDA b : b \notin {"<ff>", "<fe>"})

\* What one pass of the wait loop meets on the UART: nothing to read, a
\* fault of the UART call, or a chunk of data; dt is how long the pass
\* took, its "time.sleep(0.01)" included.
UartEvents ==
    [kind : {"none"}, data : {<<>>}, dt : {10, 1100}]
    \cup [kind : {"fault"}, data : {<<>>}, dt : {10}]
    \cup [kind : {"data"},
          data : {AT.OK, <<"O">>, <<"K">>, AT.SEND_OK, AT.ERROR, AT.PROMPT,
                  AT.JAP_HOME, AT.JAP_CAFE, AT.NO_AP, AT.NOISE},
          dt : {10}]

\* The passes of one wait, as far as the model chooses them; the passes
\* after these all find nothing to read and take the same time each, the
\* "tail" of the wait.
Scripts ==
    UNION {[1..n -> UartEvents] : n \in 0..MaxEvents}

\* The "while utime.ticks_diff(utime.ticks_ms(), start_time) < timeout_ms"
\* loop of _send_at_command from the state st of the wait: elapsed is the
\* time since start_time, last_data the elapsed time at last_data_time,
\* entered the elapsed time at which the last pass was entered.
RECURSIVE WaitLoop(_, _, _, _, _)
WaitLoop(script, tail, expected, timeout_ms, st) ==
    IF ~(st.elapsed < timeout_ms) THEN [st EXCEPT !.how = "timeout"]
    ELSE
    LET ev == IF st.i <= Len(script) THEN script[st.i]
              ELSE [kind |-> "none", data |-> <<>>, dt |-> tail]
        got == ev.kind = "data"
        response == IF got THEN st.response \o decode(ev.data)
                    ELSE st.response
        last_data == IF got THEN st.elapsed ELSE st.last_data
        here == [st EXCEPT !.response = response, !.last_data = last_data,
                           !.entered = st.elapsed]
    IN  IF ev.kind = "fault" THEN [here EXCEPT !.how = "fault"]
        ELSE IF got /\ (Contains(response, expected)
                          \/ Contains(response, AT.ERROR))
        THEN [here EXCEPT !.how = "matched"]
        ELSE IF st.elapsed - last_data > 1000 /\ response # <<>>
        THEN [here EXCEPT !.how = "silence"]
        ELSE WaitLoop(script, tail, expected, timeout_ms,
                      [here EXCEPT !.elapsed = st.elapsed + ev.dt,
                                   !.i = st.i + 1])

\* "success = expected in response" and the line after it.
Classify_ExpectedOnly(response, expected) == Contains(response, expected)

Classify(response, expected) ==
    \/ Contains(response, expected)
    \/ Contains(response, AT.OK)
    \/ Contains(response, AT.SEND_OK)

\* _send_at_command(command, expected, timeout_ms) -> (success, response),
\* with how the wait ended and what it had accumulated. The cooldown
\* before the command delays the call and changes nothing else.
send_at_command(uart, script, tail, expected, timeout_ms) ==
    LET start == [elapsed |-> 0, last_data |-> 0, entered |-> 0, i |-> 1,
                  response |-> <<>>, how |-> "waiting"]
        w == WaitLoop(script, tail, expected, timeout_ms, start)
        response == strip(w.response)
        call == [expected |-> expected, timeout_ms |-> timeout_ms,
                 accumulated |-> w.response, entered |-> w.entered,
                 how |-> w.how]
    IN  IF ~uart
        THEN [expected |-> expected, timeout_ms |-> timeout_ms,
              accumulated |-> <<>>, entered |-> 0, how |-> "no_uart",
              success |-> FALSE, response |-> <<>>]
        ELSE IF w.how = "fault"
        THEN call @@ [success |-> FALSE, response |-> <<>>]
        ELSE call @@ [success |-> Classify(response, expected),
                      response |-> response]

\* The manager after __init__, after initialize(), and after a
\* connection to the network "home".
EspStates ==
    { [initialized |-> FALSE, uart |-> FALSE, connected |-> FALSE,
       current_ssid |-> <<>>, ip_address |-> "0.0.0.0"],
      [initialized |-> TRUE, uart |-> TRUE, connected |-> FALSE,
       current_ssid |-> <<>>, ip_address |-> "0.0.0.0"],
      [initialized |-> TRUE, uart |-> TRUE, connected |-> TRUE,
       current_ssid |-> AT.HOME, ip_address |-> "192.168.4.2"] }

\* Observer of the last call: its name, the manager before it, what it
\* returned, the AT exchange it made and whether it made one; the AT
\* exchanges and the check_connection() calls so far, and whether a
\* check_connection() has turned connected from true to false.
NoAtCall ==
    [op |-> "none", n |-> 0, checks |-> 0, lost |-> FALSE, sent |-> FALSE,
     ret |-> FALSE, before |-> CHOOSE e \in EspStates : ~e.initialized,
     at |-> send_at_command(FALSE, <<>>, 10, AT.OK, 0)]

InitEsp ==
    /\ esp \in EspStates
    /\ atop = [NoAtCall EXCEPT !.before = esp]

\* _send_at_command(command, expected, timeout_ms), called on its own.
SendAtCommand ==
    /\ atop.n < MaxAtOps
    /\ \E script \in Scripts, tail \in {400, 700},
          expected \in {AT.OK, AT.PROMPT}, timeout_ms \in {2000, 3000} :
          atop' = [op |-> "send_at_command", n |-> atop.n + 1,
                   checks |-> atop.checks, lost |-> atop.lost,
                   sent |-> esp.uart, before |-> esp,
                   at |-> send_at_command(esp.uart, script, tail, expected,
                                          timeout_ms),
                   ret |-> send_at_command(esp.uart, script, tail, expected,
                                           timeout_ms).success]
    /\ UNCHANGED esp
    /\ UNCHANGED exceptEsp

\* "if not self.initialized: return False" and "if not self.connected:
\* return False" at the head of check_connection().
ReturnsEarly_UninitializedOnly(m) == ~m.initialized

ReturnsEarly(m) == ~m.initialized \/ ~m.connected

\* check_connection(), which is also what the WiFi step of the main loop
\* calls through NetworkingDriver.check_connection().
CheckConnection ==
    /\ atop.checks < MaxChecks
    /\ \/ /\ ReturnsEarly(esp)
          /\ atop' = [NoAtCall EXCEPT !.op = "check_connection",
                                      !.n = atop.n,
                                      !.checks = atop.checks + 1,
                                      !.lost = atop.lost,
                                      !.before = esp]
          /\ UNCHANGED esp
       \/ /\ ~ReturnsEarly(esp)
          /\ atop.n < MaxAtOps
          /\ \E script \in Scripts, tail \in {400, 700} :
                LET r == send_at_command(esp.uart, script, tail, AT.OK, 2000)
                    answered == r.success /\ r.response # <<>>
                                /\ esp.current_ssid # <<>>
                    same == Contains(r.response, esp.current_ssid)
                IN  /\ esp' = IF answered /\ same THEN esp
                              ELSE IF answered
                              THEN [esp EXCEPT !.connected = FALSE,
                                               !.current_ssid = <<>>,
                                               !.ip_address = "0.0.0.0"]
                              ELSE [esp EXCEPT !.connected = FALSE]
                    /\ atop' = [op |-> "check_connection", n |-> atop.n + 1,
                                checks |-> atop.checks + 1,
                                lost |-> atop.lost
                                           \/ (esp.connected
                                                 /\ ~(answered /\ same)),
                                sent |-> TRUE,
                                before |-> esp, at |-> r,
                                ret |-> answered /\ same]
    /\ UNCHANGED exceptEsp

\* disconnect(): "AT+CWQAP" is sent and its result ignored;
\* _send_at_command catches every exception, so the three fields are
\* always reset.
Disconnect ==
    /\ esp.initialized /\ esp.connected
    /\ esp' = [esp EXCEPT !.connected = FALSE, !.current_ssid = <<>>,
                          !.ip_address = "0.0.0.0"]
    /\ atop' = [NoAtCall EXCEPT !.op = "disconnect", !.n = atop.n,
                                !.checks = atop.checks, !.lost = atop.lost,
                                !.sent = TRUE, !.before = esp]
    /\ UNCHANGED exceptEsp

NextEsp == SendAtCommand \/ CheckConnection \/ Disconnect

(***************************************************************************)
(* drivers/display_driver.py: DisplayDriver                                *)
(***************************************************************************)
\* _init_ssd1306(config): the panel handle it leaves in self.display, the
\* check at which it gave up ("" when it did not), and whether it raised.
\* cfg is what the configuration says, env what the board offers; a fault
\* of the bus or of the panel library raises where the code first uses it.
init_ssd1306(cfg, env) ==
    LET gave_up(why) == [display |-> "none", abandoned |-> why,
                         raised |-> FALSE]
        first == IF cfg.i2c_address \in env.devices THEN cfg.i2c_address
                 ELSE 61
    IN  IF ~env.machine THEN gave_up("no_i2c_class")
        ELSE IF ~cfg.i2c_enabled THEN gave_up("bus_not_enabled")
        ELSE IF ~cfg.pins_known THEN gave_up("pin_not_found")
        ELSE IF env.fault = "bus"
        THEN [display |-> "none", abandoned |-> "", raised |-> TRUE]
        ELSE IF env.devices = {} THEN gave_up("no_devices")
        ELSE IF first \notin env.devices THEN gave_up("no_panel_address")
        ELSE [display |-> "ssd1306", abandoned |-> "",
              raised |-> env.fault = "panel"]

\* _init_st7567(config): pins fall back to their defaults, so only a
\* missing SPI class gives up.
init_st7567(cfg, env) ==
    IF ~env.machine
    THEN [display |-> "none", abandoned |-> "no_spi_class", raised |-> FALSE]
    ELSE IF env.fault = "bus"
    THEN [display |-> "none", abandoned |-> "", raised |-> TRUE]
    ELSE [display |-> "st7567", abandoned |-> "",
          raised |-> env.fault = "panel"]

\* DisplayDriver.__init__ with _initialize_display: the driver's fields,
\* and as observers the reason bring-up was abandoned and the inputs.
initialize_display(cfg, env) ==
    LET driver(r, ready) ==
            [display_type |-> cfg.type, display |-> r.display,
             detected |-> ready, initialized |-> ready,
             abandoned |-> r.abandoned, raised |-> r.raised,
             cfg |-> cfg, env |-> env]
        none(why) == [display |-> "none", abandoned |-> why,
                      raised |-> FALSE]
    IN  IF cfg.type = "ssd1306_i2c"
        THEN IF ~env.ssd1306_lib THEN driver(none("library_missing"), FALSE)
             ELSE driver(init_ssd1306(cfg, env),
                         ~init_ssd1306(cfg, env).raised)
        ELSE IF cfg.type = "st7567_spi"
        THEN IF ~env.st7567_lib THEN driver(none("library_missing"), FALSE)
             ELSE driver(init_st7567(cfg, env),
                         ~init_st7567(cfg, env).raised)
        ELSE driver(none("unsupported_type"), FALSE)

\* is_healthy() of the display driver.
DisplayHealthy(d) == d.detected /\ d.initialized /\ d.display # "none"

\* ST7567.show(buffer) of the vendored panel library: the buffer is
\* written to the panel byte for byte; a fault of the SPI transfer raises.
st7567_show(length, spi_fault) ==
    [raised |-> spi_fault, pushed |-> IF spi_fault THEN -1 ELSE length]

\* What callers may hand to show_framebuffer: a raw buffer of some
\* length, a FrameBuffer object over a 1024-byte buffer, or something
\* else.
Framebuffers ==
    [kind : {"bytes", "bytearray"}, length : {0, 512, 1023, 1024, 1025}]
    \cup [kind : {"FrameBuffer", "NoneType", "str"}, length : {1024}]

NoDisplayCall ==
    [op |-> "none", arg |-> [kind |-> "NoneType", length |-> 1024],
     ret |-> FALSE, pushed |-> -1]

InitDisplay ==
    /\ \E cfg \in [type : {"ssd1306_i2c", "st7567_spi", "ili9341"},
                  i2c_enabled : BOOLEAN, pins_known : BOOLEAN,
                  i2c_address : {60, 61}],
          env \in [machine : BOOLEAN, ssd1306_lib : BOOLEAN,
                  st7567_lib : BOOLEAN, fault : {"none", "bus", "panel"},
                  devices : {{}, {60}, {61}, {39}}] :
          disp = initialize_display(cfg, env)
    /\ dop = NoDisplayCall

\* show_framebuffer(framebuffer); pushed is the number of bytes that
\* reached the panel, -1 when nothing was sent.
ShowFramebuffer ==
    \E framebuffer \in Framebuffers, fault \in BOOLEAN :
        LET raw == framebuffer.kind \in {"bytes", "bytearray"}
            sent == IF ~DisplayHealthy(disp) THEN -1
                    ELSE IF disp.display_type = "ssd1306_i2c"
                    THEN IF fault \/ framebuffer.kind \in {"NoneType", "str"}
                         THEN -1 ELSE 1024
                    ELSE IF disp.display_type = "st7567_spi" /\ raw
                    THEN st7567_show(framebuffer.length, fault).pushed
                    ELSE -1
        IN  /\ dop' = [op |-> "show_framebuffer", arg |-> framebuffer,
                       ret |-> sent # -1, pushed |-> sent]
            /\ UNCHANGED disp
            /\ UNCHANGED exceptDisplay

NextDisplay == ShowFramebuffer

(***************************************************************************)
(* utils/locale_manager.py: LocaleManager                                  *)
(***************************************************************************)
\* A key path is a sequence of name pieces and "." characters, a key of
\* a dictionary a sequence of name pieces. A tree of texts is given by the
\* paths at which it has a dictionary and the texts at its other paths.
\* The entries of ENGLISH_FALLBACK the model carries:
ENGLISH_FALLBACK ==
    [ display |->
        [ name |-> "en_display",
          dicts |-> {<<>>, << <<"labels">> >>, << <<"units">> >>},
          texts |-> (<< <<"labels">>, <<"temperature">> >> :> "Temperature")
                 @@ (<< <<"labels">>, <<"humidity">> >> :> "Humidity")
                 @@ (<< <<"units">>, <<"pressure">> >> :> "hPa") ],
      console |->
        [ name |-> "en_console",
          dicts |-> {<<>>, << <<"messages">> >>},
          texts |-> (<< <<"messages">>, <<"ok">> >> :> "OK") ] ]

\* What a locale file may hold: a translation that lacks some entries, a
\* document with a text where the English tree has a dictionary, and a
\* document that is one text.
LocaleDocuments ==
    { [ name |-> "pt_partial",
        dicts |-> {<<>>, << <<"labels">> >>, << <<"messages">> >>},
        texts |-> (<< <<"labels">>, <<"temperature">> >> :> "Temperatura")
               @@ (<< <<"labels">>, <<"local">> >> :> "Local")
               @@ (<< <<"messages">>, <<"ok">> >> :> "OK!") ],
      [ name |-> "flat",
        dicts |-> {<<>>},
        texts |-> (<< <<"labels">> >> :> "Labels")
               @@ (<< <<"messages">> >> :> "Messages") ],
      [ name |-> "text", dicts |-> {}, texts |-> (<<>> :> "hello") ] }

\* key_path.split('.')
RECURSIVE split(_)
split(key_path) ==
    LET dots == {i \in 1..Len(key_path) : key_path[i] = "."}
        first == CHOOSE i \in dots : \A j \in dots : i <= j
    IN  IF dots = {} THEN <<key_path>>
        ELSE <<SubSeq(key_path, 1, first - 1)>>
             \o split(SubSeq(key_path, first + 1, Len(key_path)))

\* "value = tree; for key in keys: value = value[key]": the path of the
\* value reached, or a KeyError (no such key in a dictionary) or
\* TypeError (the value indexed is a text).
Walk(tree, keys) ==
    LET node(p) == p \in tree.dicts \/ p \in DOMAIN tree.texts
        stops == {i \in 1..Len(keys) :
                     ~(SubSeq(keys, 1, i - 1) \in tree.dicts
                        /\ node(SubSeq(keys, 1, i)))}
    IN  [ok |-> stops = {}, path |-> keys]

\* The value at a path of a tree: a text, or the dictionary there.
ValueAt(tree, path) ==
    IF path \in DOMAIN tree.texts
    THEN [kind |-> "text", text |-> tree.texts[path], tree |-> "",
          path |-> <<>>]
    ELSE [kind |-> "dict", text |-> "", tree |-> tree.name, path |-> path]

\* get_display_text / get_console_text without format arguments: the
\* two methods differ only in the tree they read.
get_text_NoFallback(data, english, key_path) ==
    IF Walk(data, split(key_path)).ok
    THEN ValueAt(data, split(key_path))
    ELSE [kind |-> "key", text |-> "", tree |-> "", path |-> key_path]

get_text(data, english, key_path) ==
    IF Walk(data, split(key_path)).ok
    THEN ValueAt(data, split(key_path))
    ELSE IF Walk(english, split(key_path)).ok
    THEN ValueAt(english, split(key_path))
    ELSE [kind |-> "key", text |-> "", tree |-> "", path |-> key_path]

\* _load_locale_data(): each file is missing, holds a document, or does
\* not parse as JSON; an error while loading leaves both trees English.
load_locale_data(display_file, console_file) ==
    LET english == [display_data |-> ENGLISH_FALLBACK.display,
                    console_data |-> ENGLISH_FALLBACK.console]
        data(file, fallback) ==
            IF file = "missing" THEN fallback
            ELSE CHOOSE d \in LocaleDocuments : d.name = file
    IN  ( IF "invalid" \in {display_file, console_file} THEN english
          ELSE [display_data |-> data(display_file, ENGLISH_FALLBACK.display),
                console_data |-> data(console_file, ENGLISH_FALLBACK.console)] )
        @@ [display_file |-> display_file, console_file |-> console_file]

\* The key paths callers ask for.
KeyPaths ==
    { <<"labels", ".", "temperature">>, <<"labels", ".", "humidity">>,
      <<"labels", ".", "local">>, <<"labels", ".", "missing">>,
      <<"units", ".", "pressure">>, <<"messages", ".", "ok">>,
      <<"labels">>, <<"messages">>, <<"units">>, <<"labels", ".">>,
      <<".", "labels">>, <<"labels", "temperature">>, <<>>,
      <<"labels", ".", "temperature", ".", "long">> }

NoLocaleCall ==
    [fn |-> "none", key_path |-> <<>>,
     result |-> [kind |-> "key", text |-> "", tree |-> "", path |-> <<>>]]

InitLocale ==
    /\ \E display_file, console_file \in
              {"missing", "invalid"} \cup {d.name : d \in LocaleDocuments} :
          loc = load_locale_data(display_file, console_file)
    /\ locop = NoLocaleCall

GetDisplayText ==
    /\ \E key_path \in KeyPaths :
          locop' = [fn |-> "get_display_text", key_path |-> key_path,
                    result |-> get_text(loc.display_data,
                                        ENGLISH_FALLBACK.display, key_path)]
    /\ UNCHANGED loc
    /\ UNCHANGED exceptLocale

GetConsoleText ==
    /\ \E key_path \in KeyPaths :
          locop' = [fn |-> "get_console_text", key_path |-> key_path,
                    result |-> get_text(loc.console_data,
                                        ENGLISH_FALLBACK.console, key_path)]
    /\ UNCHANGED loc
    /\ UNCHANGED exceptLocale

NextLocale == GetDisplayText \/ GetConsoleText

(***************************************************************************)
(* main.py: the timers of start_main_loop                                  *)
(***************************************************************************)
display_interval == 1000
input_interval == 50
wifi_interval == 30000
time_update_interval == 1000
sensor_read_interval == 5000

\* "if time_driver and utime.ticks_diff(current_time, last_wifi_check) >
\* 60000"
sync_check_interval == 60000

\* The locals of start_main_loop before the first iteration; uptime is
\* the time since boot at which the loop starts, networking whether
\* self.drivers holds a networking driver. Observers: the time the loop
\* started at, whether a WiFi poll has raised, the time at which the last
\* iteration started, whether it ran check_and_sync(), and how many did.
NewLoop(uptime, networking) ==
    [ uptime |-> uptime, iterations |-> 0, networking |-> networking,
      start |-> uptime, wifi_raised |-> FALSE, at |-> uptime,
      synced |-> FALSE, syncs |-> 0,
      last_display_update |-> 0, last_input_check |-> 0,
      last_wifi_check |-> 0, last_time_update |-> 0,
      last_sensor_read |-> 0 ]

\* Per step: how often it ran, and the times since boot at which the
\* iterations of its last two runs started.
NoRuns ==
    [ step \in {"input", "time", "sensor", "display", "wifi"} |->
          [count |-> 0, previous |-> 0, latest |-> 0, failed |-> FALSE] ]

InitTimers ==
    /\ \E uptime \in {0, 40, 70000, TICKS_PERIOD - 100},
          networking \in BOOLEAN : lp = NewLoop(uptime, networking)
    /\ runs = NoRuns

\* One iteration of "while self.running" with the time driver present:
\* dt is the time the iteration takes, its "time.sleep(0.01)" included;
\* failing are the steps whose body raises. The time-sync test comes after
\* the WiFi poll and reads the marker the poll may just have moved.
TimerIteration ==
    /\ lp.iterations < MaxIterations
    /\ \E dt \in {10, 60, 1010, 5010, 30010},
          failing \in SUBSET {"time", "sensor", "display", "wifi"} :
          LET current_time == lp.uptime % TICKS_PERIOD
              due == [ input |->
                         ticks_diff(current_time, lp.last_input_check)
                             > input_interval,
                       time |->
                         ticks_diff(current_time, lp.last_time_update)
                             > time_update_interval,
                       sensor |->
                         ticks_diff(current_time, lp.last_sensor_read)
                             > sensor_read_interval,
                       display |->
                         ticks_diff(current_time, lp.last_display_update)
                             > display_interval,
                       wifi |->
                         /\ lp.networking
                         /\ ticks_diff(current_time, lp.last_wifi_check)
                               > wifi_interval ]
              stamp(old, ran) == IF ran THEN current_time ELSE old
              marker == stamp(lp.last_wifi_check,
                              due.wifi /\ "wifi" \notin failing)
              sync == ticks_diff(current_time, marker) > sync_check_interval
          IN  /\ failing \subseteq {s \in DOMAIN due : due[s]}
              /\ lp' = [ uptime |-> lp.uptime + dt,
                         iterations |-> lp.iterations + 1,
                         networking |-> lp.networking,
                         start |-> lp.start,
                         wifi_raised |-> lp.wifi_raised \/ "wifi" \in failing,
                         at |-> lp.uptime,
                         synced |-> sync,
                         syncs |-> lp.syncs + (IF sync THEN 1 ELSE 0),
                         last_input_check |->
                             stamp(lp.last_input_check, due.input),
                         last_time_update |->
                             stamp(lp.last_time_update,
                                   due.time /\ "time" \notin failing),
                         last_sensor_read |->
                             stamp(lp.last_sensor_read, due.sensor),
                         last_display_update |->
                             stamp(lp.last_display_update, due.display),
                         last_wifi_check |-> marker ]
              /\ runs' = [ s \in DOMAIN runs |->
                             IF due[s]
                             THEN [count |-> runs[s].count + 1,
                                   previous |-> runs[s].latest,
                                   latest |-> lp.uptime,
                                   failed |-> s \in failing]
                             ELSE runs[s] ]
    /\ UNCHANGED exceptTimers

NextTimers == TimerIteration

(***************************************************************************)
(* main.py, drivers/controller_driver.py: the controller_data cache        *)
(***************************************************************************)
\* ControllerDriver.is_healthy(): no controller registered is healthy; a
\* registered transmitter is initialized, so only its errors count.
ControllerHealthy(c) == ~c.registered \/ c.error_count < 5

\* get_controller_data(): empty without a transmitter, otherwise the
\* fields of get_status(), of which the model keeps fm_muted.
get_controller_data(c) ==
    [filled |-> c.registered, fm_muted |-> c.registered /\ c.muted]

\* The controller driver after its construction: the transmitter is
\* registered or not, unmuted, with the errors its two default setters
\* counted; and "self.controller_data = {}".
InitController ==
    /\ \E registered \in BOOLEAN, error_count \in 0..2 :
          ctl = [registered |-> registered, muted |-> FALSE,
                 error_count |-> IF registered THEN error_count ELSE 0]
    /\ controller_data = [filled |-> FALSE, fm_muted |-> FALSE]
    /\ ui = [phase |-> "boot", toggled |-> FALSE, presses |-> 0,
             frame |-> 0,
             seen |-> [valid |-> FALSE, filled |-> FALSE,
                       fm_muted |-> FALSE]]

\* The two places that fill controller_data, both before the main loop:
\* initialize_drivers and _initialize_sensor_cache_sync.
SeedControllerData ==
    /\ ui.phase \in {"boot", "cache_sync"}
    /\ controller_data' = IF ControllerHealthy(ctl)
                          THEN get_controller_data(ctl)
                          ELSE controller_data
    /\ ui' = [ui EXCEPT !.phase = IF @ = "boot" THEN "cache_sync"
                                  ELSE "loop"]
    /\ UNCHANGED ctl
    /\ UNCHANGED exceptController

\* The input step of the main loop delivers a press of the down button,
\* which the user makes a bounded number of times:
\* toggle_mute() reads the transmitter's status and calls
\* set_mute(not current_mute), which sets muted when its register access
\* works and counts an error when it raises. Without a transmitter
\* set_mute returns False and nothing changes.
PressDown ==
    /\ ui.phase = "loop"
    /\ ui.presses < MaxPresses
    /\ \E bus_ok \in BOOLEAN :
          IF ~ctl.registered
          THEN /\ ui' = [ui EXCEPT !.presses = @ + 1]
               /\ UNCHANGED ctl
          ELSE IF bus_ok
          THEN /\ ctl' = [ctl EXCEPT !.muted = ~ctl.muted]
               /\ ui' = [ui EXCEPT !.toggled = TRUE, !.seen.valid = FALSE,
                                   !.presses = @ + 1]
          ELSE /\ ctl' = [ctl EXCEPT !.error_count = @ + 1]
               /\ ui' = [ui EXCEPT !.presses = @ + 1]
    /\ UNCHANGED controller_data
    /\ UNCHANGED exceptController

\* The display step of the main loop, which runs for as long as the loop
\* does: _update_display() hands self.controller_data to
\* generate_framebuffer. frame is the parity of the frames drawn.
UpdateDisplay ==
    /\ ui.phase = "loop"
    /\ ui' = [ui EXCEPT !.frame = 1 - @,
                        !.seen = [valid |-> TRUE,
                                  filled |-> controller_data.filled,
                                  fm_muted |-> controller_data.fm_muted]]
    /\ UNCHANGED <<ctl, controller_data>>
    /\ UNCHANGED exceptController

NextController == SeedControllerData \/ PressDown \/ UpdateDisplay

(***************************************************************************)
(* utils/diagnostic.py: SystemDiagnostic                                   *)
(***************************************************************************)
\* A check that records one outcome: {'status': s, ...}.
Flat(s) == [flat |-> TRUE, status |-> s, items |-> <<>>]

\* A check that records one dict per item, keyed by the item's name, each
\* with its own 'status'; items lists the items' outcomes.
PerItem(items) == [flat |-> FALSE, status |-> "", items |-> items]

\* What each check of run_full_diagnostic can store in results['tests'].
\* The per-item checks are modelled with one bus, one pin, one sensor and
\* its reading, and one controller.
TestOutcomes ==
    [ hardware_config |-> {Flat(s) : s \in {"pass", "fail", "error"}},
      i2c_buses |-> {PerItem(<<s>>) :
                        s \in {"disabled", "pass", "fail", "error"}}
                    \cup {Flat("error")},
      spi_buses |-> {Flat(s) : s \in {"pass", "error", "not_configured"}},
      pins |-> {PerItem(<<s>>) : s \in {"pass", "error"}}
               \cup {Flat("error")},
      sensors |-> {PerItem(<<s, r>>) :
                      s \in {"pass", "fail"}, r \in {"pass", "fail"}}
                  \cup {Flat("not_available"), Flat("error")},
      controllers |-> {PerItem(<<s>>) : s \in {"pass", "fail"}}
                      \cup {Flat("not_available"), Flat("error")},
      display |-> {Flat(s) :
                      s \in {"not_available", "pass", "fail", "error"}},
      input |-> {Flat(s) :
                    s \in {"not_available", "pass", "not_enabled", "error"}},
      time |-> {Flat(s) :
                   s \in {"not_available", "pass", "fail", "error"}},
      wifi |-> {Flat(s) : s \in {"not_available", "not_implemented"}} ]

\* test.get('status'): the outcome of a flat record; a per-item record
\* has no such key and gives None.
StatusOf(test) == IF test.flat THEN test.status ELSE "None"

\* The three tallies of _print_summary and the line it prints after them.
print_summary(tests) ==
    LET count(wanted) ==
            Cardinality({k \in DOMAIN tests : StatusOf(tests[k]) \in wanted})
        failed == count({"fail", "error"})
    IN  [ total |-> Cardinality(DOMAIN tests),
          passed |-> count({"pass"}),
          failed |-> failed,
          disabled |-> count({"disabled", "not_available", "not_configured"}),
          verdict |-> IF failed = 0 THEN "operational" ELSE "failed" ]

\* "self.results = {}" and nothing printed.
InitDiagnostic ==
    diag = [ran |-> FALSE,
            tests |-> [k \in DOMAIN TestOutcomes |-> Flat("")],
            summary |-> [total |-> 0, passed |-> 0, failed |-> 0,
                         disabled |-> 0, verdict |-> "none"]]

\* run_full_diagnostic(), run once: the ten checks store their records,
\* then _print_summary() counts them.
RunFullDiagnostic ==
    /\ ~diag.ran
    /\ \E hardware_config \in TestOutcomes.hardware_config,
          i2c_buses \in TestOutcomes.i2c_buses,
          spi_buses \in TestOutcomes.spi_buses,
          pins \in TestOutcomes.pins,
          sensors_test \in TestOutcomes.sensors,
          controllers \in TestOutcomes.controllers,
          display \in TestOutcomes.display,
          input \in TestOutcomes.input,
          time \in TestOutcomes.time,
          wifi_test \in TestOutcomes.wifi :
          LET tests == [ hardware_config |-> hardware_config,
                         i2c_buses |-> i2c_buses,
                         spi_buses |-> spi_buses,
                         pins |-> pins,
                         sensors |-> sensors_test,
                         controllers |-> controllers,
                         display |-> display,
                         input |-> input,
                         time |-> time,
                         wifi |-> wifi_test ]
          IN  diag' = [ran |-> TRUE, tests |-> tests,
                       summary |-> print_summary(tests)]
    /\ UNCHANGED exceptDiagnostic

NextDiagnostic == RunFullDiagnostic

(***************************************************************************)
(* Specifications: each one runs one subsystem and holds the others in a   *)
(* fixed state.                                                            *)
(***************************************************************************)
ButtonIdle ==
    /\ now = 0
    /\ pin = 1
    /\ btn = NewButton(1, FALSE, FALSE)
    /\ event = ""
    /\ cyc = NoCycle

MainIdle ==
    /\ pc = "off"
    /\ sys = NewSystem
    /\ init = [status |-> <<>>, ran |-> {}, failed |-> {}, result |-> "pending"]
    /\ con = NoConsole
    /\ fs = [ config_json |-> json_dump(ConfigDoc(FALSE, FALSE)),
              backup |-> NoFile ]
    /\ stop = "none"
    /\ polls = 0

SensorsIdle ==
    /\ sensors = [n \in {} |-> RegisteredSensor]
    /\ data_cache = {}
    /\ built = [raised |-> "", absent |-> {}, enabled |-> FALSE]
    /\ sensor_data = FallbackData
    /\ sread = NoSensorRead

FMIdle ==
    /\ fm = NewTransmitter
    /\ regs = [r \in {2, 3, 5} |-> 0]
    /\ fmop = NoFmCall

TimeIdle ==
    /\ td = NewTimeDriver(0, TRUE, FALSE)
    /\ rtc = DateTime(2024, 6, 15, 1, 12, 0, 0)
    /\ clock = 0
    /\ tmop = NoTimeCall
    /\ ntp = NoSyncHistory

NetIdle ==
    /\ wifi = NewWifiManager("none", <<>>)
    /\ conn = NoConnectCall

EspIdle ==
    /\ esp = CHOOSE e \in EspStates : ~e.initialized
    /\ atop = NoAtCall

DisplayIdle ==
    /\ disp = initialize_display(
                 [type |-> "ili9341", i2c_enabled |-> FALSE,
                  pins_known |-> FALSE, i2c_address |-> 60],
                 [machine |-> FALSE, ssd1306_lib |-> FALSE,
                  st7567_lib |-> FALSE, fault |-> "none", devices |-> {}])
    /\ dop = NoDisplayCall

LocaleIdle ==
    /\ loc = load_locale_data("missing", "missing")
    /\ locop = NoLocaleCall

TimersIdle ==
    /\ lp = NewLoop(0, FALSE)
    /\ runs = NoRuns

ControllerIdle ==
    /\ ctl = [registered |-> FALSE, muted |-> FALSE, error_count |-> 0]
    /\ controller_data = [filled |-> FALSE, fm_muted |-> FALSE]
    /\ ui = [phase |-> "boot", toggled |-> FALSE, presses |-> 0,
             frame |-> 0,
             seen |-> [valid |-> FALSE, filled |-> FALSE,
                       fm_muted |-> FALSE]]

DiagnosticIdle ==
    /\ diag = [ran |-> FALSE,
               tests |-> [k \in DOMAIN TestOutcomes |-> Flat("")],
               summary |-> [total |-> 0, passed |-> 0, failed |-> 0,
                            disabled |-> 0, verdict |-> "none"]]

\* The initial states of each specification: its own subsystem after
\* construction, the others idle.
InitSpecButton ==
    InitButton /\ MainIdle /\ SensorsIdle /\ FMIdle /\ TimeIdle /\ NetIdle
    /\ EspIdle
    /\ DisplayIdle
    /\ LocaleIdle
    /\ TimersIdle
    /\ ControllerIdle
    /\ DiagnosticIdle
InitSpecMain ==
    InitMain /\ ButtonIdle /\ SensorsIdle /\ FMIdle /\ TimeIdle /\ NetIdle
    /\ EspIdle
    /\ DisplayIdle
    /\ LocaleIdle
    /\ TimersIdle
    /\ ControllerIdle
    /\ DiagnosticIdle
InitSpecSensors ==
    InitSensors /\ ButtonIdle /\ MainIdle /\ FMIdle /\ TimeIdle /\ NetIdle
    /\ EspIdle
    /\ DisplayIdle
    /\ LocaleIdle
    /\ TimersIdle
    /\ ControllerIdle
    /\ DiagnosticIdle
InitSpecFM ==
    InitFM /\ ButtonIdle /\ MainIdle /\ SensorsIdle /\ TimeIdle /\ NetIdle
    /\ EspIdle
    /\ DisplayIdle
    /\ LocaleIdle
    /\ TimersIdle
    /\ ControllerIdle
    /\ DiagnosticIdle
InitSpecTime ==
    InitTime /\ ButtonIdle /\ MainIdle /\ SensorsIdle /\ FMIdle /\ NetIdle
    /\ EspIdle
    /\ DisplayIdle
    /\ LocaleIdle
    /\ TimersIdle
    /\ ControllerIdle
    /\ DiagnosticIdle
InitSpecSync ==
    InitSync /\ ButtonIdle /\ MainIdle /\ SensorsIdle /\ FMIdle /\ NetIdle
    /\ EspIdle
    /\ DisplayIdle
    /\ LocaleIdle
    /\ TimersIdle
    /\ ControllerIdle
    /\ DiagnosticIdle
InitSpecNet ==
    InitNet /\ ButtonIdle /\ MainIdle /\ SensorsIdle /\ FMIdle /\ TimeIdle
    /\ EspIdle
    /\ DisplayIdle
    /\ LocaleIdle
    /\ TimersIdle
    /\ ControllerIdle
    /\ DiagnosticIdle
InitSpecEsp ==
    InitEsp /\ ButtonIdle /\ MainIdle /\ SensorsIdle /\ FMIdle /\
    TimeIdle /\ NetIdle
    /\ DisplayIdle
    /\ LocaleIdle
    /\ TimersIdle
    /\ ControllerIdle
    /\ DiagnosticIdle
InitSpecDisplay ==
    InitDisplay /\ ButtonIdle /\ MainIdle /\ SensorsIdle /\ FMIdle /\
    TimeIdle /\ NetIdle /\ EspIdle
    /\ LocaleIdle
    /\ TimersIdle
    /\ ControllerIdle
    /\ DiagnosticIdle
InitSpecLocale ==
    InitLocale /\ ButtonIdle /\ MainIdle /\ SensorsIdle /\ FMIdle /\
    TimeIdle /\ NetIdle /\ EspIdle /\ DisplayIdle
    /\ TimersIdle
    /\ ControllerIdle
    /\ DiagnosticIdle
InitSpecTimers ==
    InitTimers /\ ButtonIdle /\ MainIdle /\ SensorsIdle /\ FMIdle /\
    TimeIdle /\ NetIdle /\ EspIdle /\ DisplayIdle /\ LocaleIdle
    /\ ControllerIdle
    /\ DiagnosticIdle
InitSpecController ==
    InitController /\ ButtonIdle /\ MainIdle /\ SensorsIdle /\
    FMIdle /\ TimeIdle /\ NetIdle /\ EspIdle /\ DisplayIdle /\
    LocaleIdle /\ TimersIdle
    /\ DiagnosticIdle
InitSpecDiagnostic ==
    InitDiagnostic /\ ButtonIdle /\ MainIdle /\ SensorsIdle /\
    FMIdle /\ TimeIdle /\ NetIdle /\ EspIdle /\ DisplayIdle /\
    LocaleIdle /\ TimersIdle /\ ControllerIdle

SpecButton == InitSpecButton /\ [][NextButton]_vars

SpecMain == InitSpecMain /\ [][NextMain]_vars

SpecSensors == InitSpecSensors /\ [][NextSensors]_vars

SpecFM == InitSpecFM /\ [][NextFM]_vars

SpecTime == InitSpecTime /\ [][NextTime]_vars

SpecSync == InitSpecSync /\ [][NextSync]_vars

\* auto_connect runs to its return once called: the loop is the only
\* thread of the call.
SpecNet == InitSpecNet /\ [][NextNet]_vars /\ WF_vars(NextNet)

SpecEsp == InitSpecEsp /\ [][NextEsp]_vars

SpecDisplay == InitSpecDisplay /\ [][NextDisplay]_vars

SpecLocale == InitSpecLocale /\ [][NextLocale]_vars

SpecTimers == InitSpecTimers /\ [][NextTimers]_vars

SpecController == InitSpecController /\ [][NextController]_vars /\ WF_vars(SeedControllerData)
                     /\ WF_vars(UpdateDisplay)

SpecDiagnostic == InitSpecDiagnostic /\ [][NextDiagnostic]_vars

(***************************************************************************)
(* Claims about Button.check()                                             *)
(***************************************************************************)
\* C1: a press that starts in the Released state and whose release is
\* sampled after more than the debounce window and less than the long-press
\* threshold has, at every later check() before the next press, emitted
\* exactly one press event and no long event, invoked the short callback
\* exactly once and raised press_count by exactly one.
C1_ShortPressOnce ==
    (cyc.open /\ cyc.clean /\ cyc.released
        /\ cyc.rel_dur > debounce_ms /\ cyc.rel_dur < long_press_ms)
    => /\ cyc.n_press = 1
       /\ cyc.n_long = 0
       /\ (btn.callback => cyc.n_cb = 1)
       /\ btn.press_count = cyc.pc0 + 1

\* C2: a press that starts in the Released state and is sampled still active
\* after more than the long-press threshold has emitted exactly one long
\* event (one long callback) and no press event, at every later check()
\* of the hold and after the release.
C2_LongPressOnce ==
    (cyc.open /\ cyc.clean /\ cyc.held > long_press_ms)
    => /\ cyc.n_long = 1
       /\ cyc.n_press = 0
       /\ cyc.n_cb = 0
       /\ (btn.long_callback => cyc.n_lcb = 1)
       /\ btn.press_count = cyc.pc0

\* A long press from Released, released again, and checked once more.
C2_Witness ==
    /\ cyc.open /\ cyc.clean /\ cyc.released
    /\ cyc.held > long_press_ms
    /\ now > cyc.start + cyc.rel_dur
    /\ btn.long_callback /\ cyc.n_lcb = 1 /\ cyc.n_long = 1

\* C3: whatever happened before, a press whose release is sampled before the
\* debounce window has elapsed emits no event, invokes no callback and
\* leaves press_count unchanged.
C3_BounceSilent ==
    (cyc.open /\ cyc.released /\ cyc.rel_dur < debounce_ms)
    => /\ cyc.n_press = 0
       /\ cyc.n_long = 0
       /\ cyc.n_cb = 0
       /\ cyc.n_lcb = 0
       /\ btn.press_count = cyc.pc0

\* C35: a check() that returns the long event has sampled the level
\* active, and the level has been sampled active without interruption for
\* more than long_press_ms: since the first active sample of the present
\* press, or since initialization when the button was held from the start.
C35_LongOnlyAfterHold ==
    event = "long"
    => IF cyc.open
       THEN ~cyc.released /\ cyc.held > long_press_ms
       ELSE now > long_press_ms

(***************************************************************************)
(* Claims about main(), the orchestrator and the console                   *)
(***************************************************************************)
\* Two dicts with the same keys and the same value under each key.
SameDict(a, b) == DOMAIN a = DOMAIN b /\ \A k \in DOMAIN a : a[k] = b[k]

\* C4: while fewer than max_errors uncaught main-loop errors have been
\* counted (and no interactive interrupt came) the orchestrator is still
\* polling and the console has not been entered; once max_errors errors have
\* been counted the console has been entered.
C4_ErrorBudget ==
    /\ (0 < sys.error_count /\ sys.error_count < max_errors
            /\ stop # "interrupt")
       => (pc = "loop" /\ ~con.entered)
    /\ sys.error_count >= max_errors => con.entered

\* C5: main() never returns without the console having been entered (a
\* machine.reset() is the state pc = "reset", not a return).
C5_NoProcessExit == pc = "returned" => con.entered

\* C6: after `return` in a console entered from the running orchestrator,
\* run_console has yielded "resume" and the orchestrator is polling again.
C6_ReturnResumes ==
    (con.origin = "loop" /\ con.enter_result = "resume")
    => (con.run_result = "resume" /\ pc = "loop")

\* C7: a console entered from the orchestrator holds the orchestrator's
\* drivers and its Configuration, and what save/reboot wrote to config.json
\* is that Configuration.
C7_ConsoleSeesLiveSystem ==
    (con.entered /\ con.origin = "loop")
    => /\ SameDict(con.drivers, sys.drivers)
       /\ SameDict(con.config, sys.config)
       /\ con.sensors_driver = Get(sys.drivers, "sensors")
       /\ con.controller_driver = Get(sys.drivers, "controller")
       /\ con.input_driver = Get(sys.drivers, "input")
       /\ con.display_driver = Get(sys.drivers, "display")
       /\ con.time_driver = Get(sys.drivers, "time")
       /\ Get(con.drivers, "networking") = Get(sys.drivers, "networking")
       /\ (con.saved => /\ Parsable(fs.config_json)
                        /\ SameDict(json_load(fs.config_json), sys.config))

\* The steps of initialize_drivers before position i.
StepsBefore(i) == {StepOrder[j] : j \in 1..(i - 1)}

C9_SensorsHealthy ==
    /\ DOMAIN sensors = {} => ~is_healthy(sensors)
    /\ DOMAIN sensors # {}
       => (is_healthy(sensors)
            <=> \E n \in DOMAIN sensors :
                    sensors[n].initialized /\ sensors[n].error_count < 5)

\* Both sensors registered, one of them at five errors, the other below:
\* the driver is healthy while one sensor fails.
C9_Witness ==
    /\ DOMAIN sensors = SensorNames
    /\ sensors["aht20"].error_count = 5
    /\ sensors["bmp280"].error_count < 5
    /\ is_healthy(sensors)

(***************************************************************************)
(* Claims about FMTransmitterRDA5807                                       *)
(***************************************************************************)
\* C10: after a successful set_frequency for the requested frequency
\* tenths/10 MHz, with c the request clamped to 880..1080 tenths, the
\* channel code is (c - 880) + 4096 and the cached frequency is c/10.
C10_FrequencyEncoding ==
    (fmop.op = "set_frequency" /\ fmop.ret)
    => LET c == Max(880, Min(1080, fmop.req))
       IN  /\ fmop.code = (c - 880) + 4096
           /\ fm.frequency = FloatOf(c)

\* C11: after a successful set_volume(v), with c = v clamped to 0..15, the
\* 16-bit value written to register 0x05 has low 4 bits c and upper 12 bits
\* those of the value just read from register 0x05, the register holds that
\* value, and the cached volume is c; 20 gives 15 and -3 gives 0.
C11_VolumeEncoding ==
    (fmop.op = "set_volume" /\ fmop.ret)
    => LET c == IF fmop.req < 0 THEN 0
                ELSE IF fmop.req > 15 THEN 15 ELSE fmop.req
       IN  /\ fmop.wrote \in 0..65535
           /\ fmop.wrote % 16 = c
           /\ fmop.wrote \div 16 = fmop.read \div 16
           /\ regs[5] = fmop.wrote
           /\ fm.volume = c
           /\ (fmop.req = 20 => fm.volume = 15)
           /\ (fmop.req = -3 => fm.volume = 0)

\* set_volume(20) succeeded on a register that read 0x88AC (left by an
\* earlier set_volume(12)): 0x88AF was written.
C11_Witness ==
    /\ fmop.op = "set_volume" /\ fmop.ret
    /\ fmop.req = 20
    /\ fmop.read = 34988
    /\ fmop.wrote = 34991

\* C22: set_frequency, set_volume and set_mute on a device that is not
\* initialized return false with no bus traffic and no state change; when
\* a bus transfer of the call fails they return false, add exactly one to
\* error_count and leave frequency, volume, muted and last_command as
\* they were; when they return true last_command is the time of the call.
C22_SettersFailSafe ==
    fmop.op \in {"set_frequency", "set_volume", "set_mute"}
    => /\ ~fmop.before.initialized
             => (~fmop.ret /\ fmop.bus = <<>> /\ fm = fmop.before)
       /\ (fmop.before.initialized /\ fmop.bus_error)
             => /\ ~fmop.ret
                /\ fm.error_count = fmop.before.error_count + 1
                /\ fm.frequency = fmop.before.frequency
                /\ fm.volume = fmop.before.volume
                /\ fm.muted = fmop.before.muted
                /\ fm.last_command = fmop.before.last_command
       /\ fmop.ret => fm.last_command = fmop.n

\* C23: get_status() on an initialized device whose read of register 0x0A
\* failed on the bus returns a dictionary with read_error true, the cached
\* frequency, volume and muted, and neither stereo nor rssi.
C23_StatusReadError ==
    (fmop.op = "get_status" /\ fmop.before.initialized /\ fmop.bus_error)
    => /\ "read_error" \in DOMAIN fmop.status
       /\ fmop.status["read_error"] = TRUE
       /\ fmop.status["frequency"] = fm.frequency
       /\ fmop.status["volume"] = fm.volume
       /\ fmop.status["muted"] = fm.muted
       /\ "stereo" \notin DOMAIN fmop.status
       /\ "rssi" \notin DOMAIN fmop.status

\* C24: an initialize() that returns true has written, in this order,
\* 0x02=0x0002, 0x02=0x8001, 0x03=0x0000, then register 0x03 with the
\* current frequency and register 0x05 with the current volume; and
\* initialized is true after initialize() only if all five were written.
C24_InitializeWrites ==
    fmop.op = "initialize"
    => /\ (fmop.ret \/ fm.initialized)
             => /\ Len(fmop.bus) = 5
                /\ fmop.bus[1] = <<"w", 2, 2>>
                /\ fmop.bus[2] = <<"w", 2, 32769>>
                /\ fmop.bus[3] = <<"w", 3, 0>>
                /\ fmop.bus[4][1] = "w" /\ fmop.bus[4][2] = 3
                /\ fmop.bus[5][1] = "w" /\ fmop.bus[5][2] = 5
                /\ fmop.bus[5][3] % 16 = fm.volume
       /\ fmop.ret = fm.initialized

\* C29: in the value a successful set_frequency writes to register 0x03,
\* bits 0..8 are those of the channel code and bits 9..15 are bits 9..15 of
\* the value just read from the register.
C29_FrequencyWordBits ==
    (fmop.op = "set_frequency" /\ fmop.ret)
    => /\ fmop.wrote % 512 = fmop.code % 512
       /\ fmop.wrote \div 512 = fmop.read \div 512

(***************************************************************************)
(* Claims about the console's save and reboot                              *)
(***************************************************************************)
\* C12: after `save` with a non-empty in-memory configuration and an
\* existing config.json, config.json parses to the console's in-memory
\* configuration, config.json.backup holds what config.json held before the
\* save, and the backup was written before config.json was overwritten.
C12_SaveRoundTrip ==
    (con.last_cmd = "save" /\ con.pre.exists)
    => /\ Parsable(fs.config_json)
       /\ SameDict(json_load(fs.config_json), con.config)
       /\ fs.backup.exists
       /\ fs.backup.valid = con.pre.valid
       /\ SameDict(fs.backup.text, con.pre.text)
       /\ Len(con.writes) >= 2
       /\ con.writes[1] = "backup"
       /\ con.writes[2] = "config"

\* C13: after `reboot` with an existing config.json, config.json.backup
\* holds what config.json held before the command, it was written before
\* config.json was overwritten, and the reset came last.
C13_RebootBacksUp ==
    (con.last_cmd = "reboot" /\ con.pre.exists)
    => /\ fs.backup.exists
       /\ fs.backup.valid = con.pre.valid
       /\ SameDict(fs.backup.text, con.pre.text)
       /\ Len(con.writes) >= 2
       /\ con.writes[1] = "backup"
       /\ con.writes[2] = "config"
       /\ pc = "reset"

(***************************************************************************)
(* Claims about TimeDriver                                                 *)
(***************************************************************************)
\* C14: set_manual_time with every argument inside the validated ranges
\* returns true, hands the RTC exactly the year, month, day, hour, minute
\* and second given, leaves manual_year .. manual_second equal to the
\* arguments and sets manual_time_set and has_valid_time.
C14_ManualTimeStored ==
    (tmop.op = "set_manual_time" /\ ValidManualArgs(tmop.args))
    => /\ tmop.ret
       /\ tmop.wrote.year = tmop.args.year
       /\ tmop.wrote.month = tmop.args.month
       /\ tmop.wrote.day = tmop.args.day
       /\ tmop.wrote.hour = tmop.args.hour
       /\ tmop.wrote.minute = tmop.args.minute
       /\ tmop.wrote.second = tmop.args.second
       /\ td.manual_year = tmop.args.year
       /\ td.manual_month = tmop.args.month
       /\ td.manual_day = tmop.args.day
       /\ td.manual_hour = tmop.args.hour
       /\ td.manual_minute = tmop.args.minute
       /\ td.manual_second = tmop.args.second
       /\ td.manual_time_set
       /\ td.has_valid_time

\* Days from 1970-01-01 to the civil date y-m-d in the proleptic Gregorian
\* calendar, by the era / day-of-era decomposition.
CivilDays(y, m, d) ==
    LET yy  == IF m <= 2 THEN y - 1 ELSE y
        era == yy \div 400
        yoe == yy - era * 400
        mp  == IF m > 2 THEN m - 3 ELSE m + 9
        doy == (153 * mp + 2) \div 5 + d - 1
        doe == yoe * 365 + yoe \div 4 - yoe \div 100 + doy
    IN  era * 146097 + doe - 719468

\* Day of the week of a civil date, Monday = 0 .. Sunday = 6 (1970-01-01
\* was a Thursday).
CivilWeekday(y, m, d) == (CivilDays(y, m, d) + 3) % 7

\* y-m-d is a date of the calendar.
CivilDate(y, m, d) ==
    /\ m \in 1..12
    /\ d >= 1
    /\ d <= (IF m = 2 THEN (IF IsLeapYear(y) THEN 29 ELSE 28)
             ELSE IF m \in {4, 6, 9, 11} THEN 30 ELSE 31)

\* C15: for every valid date given to set_manual_time, the weekday handed
\* to the RTC is the date's true day of the week with Monday = 0 ..
\* Sunday = 6; 2024-01-01 stores 0.
C15_WeekdayMondayZero ==
    (tmop.op = "set_manual_time" /\ ValidManualArgs(tmop.args)
        /\ CivilDate(tmop.args.year, tmop.args.month, tmop.args.day))
    => tmop.wrote.weekday
          = CivilWeekday(tmop.args.year, tmop.args.month, tmop.args.day)

C17_SyncOnlyWhenDue ==
    tmop.op = "sync_with_ntp"
    => /\ tmop.delegated
          => /\ ntp.auto
             /\ ntp.bound
             /\ ntp.net \in {"synced", "failed", "sync_raises"}
             /\ (ntp.since_attempt >= 0 => ntp.since_attempt >= 300000)
             /\ (ntp.since_delegation >= 0 => ntp.since_delegation >= 300000)
       /\ ~tmop.delegated => ~tmop.ret

\* A second delegation by sync_with_ntp(), made after the tick counter
\* wrapped, with no force_sync since the first.
C17_Witness ==
    /\ tmop.op = "sync_with_ntp" /\ tmop.delegated
    /\ ntp.since_delegation >= 300000
    /\ ntp.delegated_at > TICKS_PERIOD

\* C18: a force_sync() call with auto_sync on and a connected network
\* driver reaches sync_ntp_time, whatever the time since boot or since the
\* previous attempt.
C18_ForceSyncBypasses ==
    (tmop.op = "force_sync" /\ ntp.auto /\ ntp.bound
        /\ ntp.net \in {"synced", "failed", "sync_raises"})
    => tmop.delegated

(***************************************************************************)
(* Claims about NetworkingDriver                                           *)
(***************************************************************************)
\* C19: auto_connect(max_attempts) runs connect_to_networks at most
\* max_attempts times, no cycle follows one that succeeded, it returns
\* true exactly when some cycle succeeded, every pause is 2 s long and
\* stands between two cycles (none before the first, none after the last),
\* with no manager or an empty network list it returns false with nothing
\* attempted, and every call returns.
C19_AutoConnectBounded ==
    /\ [](/\ Len(conn.results) <= conn.max_attempts
          /\ \A i \in 1..Len(conn.results) :
                conn.results[i] => (i = Len(conn.results) /\ conn.returned)
          /\ conn.returned
                => (conn.ret <=> \E i \in 1..Len(conn.results) :
                                    conn.results[i])
          /\ Len(conn.results)
                = Cardinality({i \in 1..Len(conn.log) :
                                  conn.log[i].ev = "connect"})
          /\ \A i \in 1..Len(conn.log) :
                conn.log[i].ev = "sleep"
                => /\ conn.log[i].s = 2
                   /\ i > 1
                   /\ conn.log[i - 1].ev = "connect"
                   /\ i < Len(conn.log) => conn.log[i + 1].ev = "connect"
                   /\ i = Len(conn.log) => ~conn.returned
          /\ (conn.n > 0 /\ (wifi.type = "none" \/ wifi.networks = <<>>))
                => (conn.returned /\ ~conn.ret /\ conn.log = <<>>))
    /\ ((conn.n > 0 /\ ~conn.returned) ~> conn.returned)

\* auto_connect(3) returned false after three failed cycles with a pause
\* after the first and the second only.
C19_Witness ==
    /\ conn.returned /\ ~conn.ret
    /\ conn.max_attempts = 3
    /\ Len(conn.results) = 3
    /\ Len(conn.log) = 5
    /\ conn.log[2].ev = "sleep" /\ conn.log[4].ev = "sleep"
    /\ conn.log[5].ev = "connect"

\* The priority the claim gives an entry: its own, 999 when it has none.
ClaimedPriority(n) == IF "priority" \in DOMAIN n THEN n.priority ELSE 999

\* The entry has an ssid.
HasSsid(n) == "ssid" \in DOMAIN n /\ n.ssid # ""

\* C20: after a connect_to_networks call that no existing association cut
\* short, the networks handed to _connect_single were tried in
\* non-decreasing priority (999 when missing), each had an ssid, none was
\* tried twice, only the last one can have connected; when one connected,
\* connected is true, current_ssid is its ssid and every candidate of
\* strictly lower priority value was tried before it; when none connected,
\* every entry with an ssid was tried and connected is false.
C20_PriorityOrder ==
    (Len(conn.results) > 0 /\ ~conn.short)
    => LET list  == wifi.networks
           tried == conn.tried
           ok    == conn.results[Len(conn.results)]
           last  == tried[Len(tried)]
       IN  /\ \A i \in 1..Len(tried) : HasSsid(list[tried[i]])
           /\ \A i, j \in 1..Len(tried) :
                 i < j => /\ tried[i] # tried[j]
                          /\ ClaimedPriority(list[tried[i]])
                                <= ClaimedPriority(list[tried[j]])
           /\ \A i \in 1..Len(tried) :
                 (conn.outcome[tried[i]] = "connected")
                    <=> (ok /\ i = Len(tried))
           /\ ok => /\ tried # <<>>
                    /\ wifi.connected
                    /\ wifi.current_ssid = list[last].ssid
                    /\ \A k \in 1..Len(list) :
                          (HasSsid(list[k])
                             /\ ClaimedPriority(list[k])
                                   < ClaimedPriority(list[last]))
                          => \E i \in 1..Len(tried) : tried[i] = k
           /\ ~ok => /\ ~wifi.connected
                     /\ \A k \in 1..Len(list) :
                           HasSsid(list[k])
                           => \E i \in 1..Len(tried) : tried[i] = k

\* The entry of priority 5 failed and the entry without a priority
\* connected before the entry of priority 1000 was tried.
C20_Witness ==
    /\ Len(conn.results) > 0 /\ ~conn.short
    /\ Len(wifi.networks) = 3
    /\ conn.tried = <<3, 1>>
    /\ wifi.connected
    /\ wifi.current_ssid = "home"

(***************************************************************************)
(* Claims about ESP8285WifiManager                                         *)
(***************************************************************************)
\* C21: when check_connection() runs on a manager that believes it is
\* connected and the "AT+CWJAP?" exchange suffers a transport error (a UART
\* fault, or the wait running out with nothing received), connected stays
\* true and the call returns true, the prior state.
C21_TransportErrorKeepsConnected ==
    ( /\ atop.op = "check_connection"
      /\ atop.before.initialized /\ atop.before.connected
      /\ (atop.at.how = "fault" \/ atop.at.accumulated = <<>>) )
    => (esp.connected /\ atop.ret)

\* C27: the success flag _send_at_command returns is true exactly when
\* the response it returns contains the expected token or "OK", and, when
\* the wait ended without a UART fault, exactly when the accumulated
\* response does; a response with "SEND OK" is a success whatever token was
\* expected; and no pass of the wait loop is entered at or after the
\* overall timeout.
C27_AtClassification ==
    (atop.op \in {"send_at_command", "check_connection"}
        /\ atop.at.how # "no_uart")
    => LET r == atop.at
       IN  /\ r.success <=> (Contains(r.response, r.expected)
                                \/ Contains(r.response, AT.OK))
           /\ r.how # "fault"
                 => (r.success <=> (Contains(r.accumulated, r.expected)
                                      \/ Contains(r.accumulated, AT.OK)))
           /\ Contains(r.response, AT.SEND_OK) => r.success
           /\ r.entered < r.timeout_ms
           /\ r.how \in {"timeout", "fault", "matched", "silence"}

\* C27 witness: "SEND OK" arrived while ">" was expected and never came,
\* and the command counts as a success.
C27_Witness ==
    /\ atop.op = "send_at_command"
    /\ atop.at.expected = AT.PROMPT
    /\ Contains(atop.at.response, AT.SEND_OK)
    /\ ~Contains(atop.at.response, AT.PROMPT)
    /\ atop.at.success

\* C36: a check_connection() on a manager whose connected is false returns
\* false, makes no AT exchange and leaves the manager as it was, so the
\* main loop never sees "not connected before, connected after"; and no
\* step turns connected from false to true.
C36_NeverRestored ==
    /\ []((atop.op = "check_connection" /\ ~atop.before.connected)
             => (~atop.ret /\ ~atop.sent /\ esp = atop.before))
    /\ [][~esp.connected => ~esp'.connected]_vars

\* C36 witness: a check_connection() turned connected to false, and a
\* later one on the initialized manager returned false without traffic.
C36_Witness ==
    /\ atop.lost
    /\ atop.op = "check_connection"
    /\ atop.before.initialized
    /\ ~atop.before.connected
    /\ ~atop.ret /\ ~atop.sent

\* C40: whenever connected is false the IP address is "0.0.0.0" and
\* current_ssid is absent, and whenever connected is true current_ssid is
\* present.
C40_ConnectionFieldsAgree ==
    /\ ~esp.connected
          => (esp.ip_address = "0.0.0.0" /\ esp.current_ssid = <<>>)
    /\ esp.connected => esp.current_ssid # <<>>

(***************************************************************************)
(* Claims about DisplayDriver                                              *)
(***************************************************************************)
\* C25: on the ST7567 path show_framebuffer returns true, and sends the
\* buffer to the panel, only for a raw byte buffer of exactly 1024 bytes;
\* for any other argument it returns false and nothing is pushed.
C25_St7567AcceptsOnly1024 ==
    (dop.op = "show_framebuffer" /\ disp.display_type = "st7567_spi")
    => /\ dop.ret => ( /\ dop.arg.kind \in {"bytes", "bytearray"}
                       /\ dop.arg.length = 1024
                       /\ dop.pushed = 1024 )
       /\ ~(dop.arg.kind \in {"bytes", "bytearray"}
              /\ dop.arg.length = 1024)
             => (~dop.ret /\ dop.pushed = -1)

\* C30: after construction, a driver whose panel bring-up was abandoned
\* has detected and initialized false, and initialized implies that the
\* panel handle is present.
C30_AbandonedMeansNotInitialized ==
    /\ disp.abandoned # "" => (~disp.detected /\ ~disp.initialized)
    /\ disp.initialized => disp.display # "none"

(***************************************************************************)
(* Claims about LocaleManager                                              *)
(***************************************************************************)
\* The segments of a path joined with dots: the key path that names it.
RECURSIVE Dotted(_)
Dotted(path) ==
    IF Len(path) = 1 THEN path[1]
    ELSE path[1] \o <<".">> \o Dotted(Tail(path))

\* The paths of a tree a key path names: every step down from the root
\* is through a dictionary.
Named(tree, key_path) ==
    {p \in tree.dicts \cup DOMAIN tree.texts :
        /\ p # <<>>
        /\ \A i \in 0..(Len(p) - 1) : SubSeq(p, 1, i) \in tree.dicts
        /\ Dotted(p) = key_path}

\* C26: get_display_text and get_console_text return the value at the
\* dotted path in the active tree when there is one, else the value at
\* that path in the built-in English tree when there is one, else the key
\* path itself; and with the display file missing "labels.temperature"
\* gives "Temperature".
C26_LocaleLookup ==
    locop.fn # "none"
    => LET display == locop.fn = "get_display_text"
           active == IF display THEN loc.display_data ELSE loc.console_data
           english == IF display THEN ENGLISH_FALLBACK.display
                      ELSE ENGLISH_FALLBACK.console
           expect(tree) ==
               LET p == CHOOSE p \in Named(tree, locop.key_path) : TRUE
               IN  IF p \in DOMAIN tree.texts
                   THEN locop.result.kind = "text"
                        /\ locop.result.text = tree.texts[p]
                   ELSE locop.result.kind = "dict"
                        /\ locop.result.tree = tree.name
                        /\ locop.result.path = p
       IN  /\ IF Named(active, locop.key_path) # {} THEN expect(active)
              ELSE IF Named(english, locop.key_path) # {} THEN expect(english)
              ELSE locop.result.kind = "key"
                   /\ locop.result.path = locop.key_path
           /\ ( display /\ loc.display_file = "missing"
                  /\ locop.key_path = <<"labels", ".", "temperature">> )
                => locop.result.text = "Temperature"

\* C26 witness: a loaded translation lacks "labels.humidity" and the
\* English text is returned.
C26_Witness ==
    /\ locop.fn = "get_display_text"
    /\ loc.display_file = "pt_partial"
    /\ locop.key_path = <<"labels", ".", "humidity">>
    /\ locop.result.kind = "text"
    /\ locop.result.text = "Humidity"

(***************************************************************************)
(* Claims about the timers of the main loop                                *)
(***************************************************************************)
\* C28: two consecutive runs of the input, time-refresh, sensor, display
\* or WiFi-poll step are in iterations that started more than the step's
\* interval apart, also when the body of the step failed.
C28_StepsKeepTheirInterval ==
    LET interval == [ input |-> input_interval,
                      time |-> time_update_interval,
                      sensor |-> sensor_read_interval,
                      display |-> display_interval,
                      wifi |-> wifi_interval ]
    IN  \A s \in DOMAIN runs :
            runs[s].count >= 2
            => runs[s].latest - runs[s].previous > interval[s]

\* C37: with a networking driver whose WiFi polls never raise, no
\* iteration runs check_and_sync(); without a networking driver, every
\* iteration that starts more than 60000 ms after the loop started runs it.
C37_SyncStepReachability ==
    /\ (lp.networking /\ ~lp.wifi_raised) => lp.syncs = 0
    /\ (~lp.networking /\ lp.iterations >= 1
        /\ lp.at - lp.start > sync_check_interval) => lp.synced

\* C33: when the clock holds a calendar date the driver accepts,
\* adjust_time(m) followed by adjust_time(-m) both return true and leave
\* year, month, day, hour and minute as get_current_time() gave them before.
C33_AdjustRoundTrip ==
    LET was == tmop.args
        is  == ApplyTimezone(rtc, td.timezone)
    IN  ( /\ tmop.op = "test_time"
          /\ 2020 <= was.year /\ was.year <= 2100
          /\ was.day <= (IF was.month = 2 /\ IsLeapYear(was.year) THEN 29
                         ELSE days_in_month[was.month]) )
        => /\ tmop.ret
           /\ is.year = was.year /\ is.month = was.month /\ is.day = was.day
           /\ is.hour = was.hour /\ is.minute = was.minute

\* C31: the construction of SensorsDriver never raises, whatever sections
\* of the configuration are absent: no exception leaves _discover_sensors.
C31_ConstructionNeverRaises == built.raised = ""

\* C38: an error counter never decreases except when reset_error_counts()
\* clears all of them, a good read included; a driver whose registered
\* sensors all have 5 or more errors is unhealthy; and the main loop's
\* sensor step on such a driver reads nothing.
C38_CountersOnlyGrow ==
    /\ [][/\ \/ \A n \in DOMAIN sensors :
                    sensors'[n].error_count >= sensors[n].error_count
             \/ \A n \in DOMAIN sensors : sensors'[n].error_count = 0
          /\ (/\ DOMAIN sensors # {}
              /\ \A n \in DOMAIN sensors :
                    sensors[n].error_count >= SENSOR_ERROR_LIMIT
              /\ sread' # sread)
             => /\ ~sread'.did_read
                /\ sensors' = sensors
                /\ sensor_data' = sensor_data]_vars
    /\ [](/\ DOMAIN sensors # {}
          /\ \A n \in DOMAIN sensors :
                sensors[n].error_count >= SENSOR_ERROR_LIMIT
          => ~is_healthy(sensors))

\* C38 witness: both sensors are registered, one went through a good read
\* after errors, both have reached 5 errors and the main loop's sensor step
\* has run without reading.
C38_Witness ==
    /\ DOMAIN sensors = SensorNames
    /\ \A n \in SensorNames : sensors[n].error_count >= SENSOR_ERROR_LIMIT
    /\ sread.op = "loop"
    /\ ~sread.did_read
    /\ sread.reads >= 1

\* C39: sensor_data is never empty: it is the initial fallback until the
\* orchestrator gets a non-empty read_all() result, and from then on the
\* most recent non-empty result.
C39_SensorDataNeverEmpty ==
    /\ sensor_data.fields # {}
    /\ sensor_data = sread.last_good
    /\ sread.last_good.reading = 0 => sensor_data = FallbackData
    /\ (sread.did_read /\ sread.result.fields # {})
       => sensor_data = sread.result

\* C39 witness: a main-loop refresh returned an empty result after an
\* earlier refresh had stored a reading, which is still the cache.
C39_Witness ==
    /\ sread.op = "loop"
    /\ sread.did_read
    /\ sread.result.fields = {}
    /\ sensor_data.reading >= 1
    /\ sensor_data.reading < sread.result.reading

\* C32: in the main loop, once a press of the down button has toggled the
\* transmitter's mute, a later display refresh is eventually given a
\* controller_data whose fm_muted equals the transmitter's muted flag.
C32_DisplayFollowsMute ==
    (ui.phase = "loop" /\ ui.toggled)
    ~> (ui.seen.valid /\ ui.seen.filled /\ ui.seen.fm_muted = ctl.muted)

\* C34: after run_full_diagnostic() the failed tally is the number of
\* checks with an outcome of fail or error, their per-item outcomes
\* included, and the "all operational" line is printed only when no check
\* and no item of a check has failed.
C34_SummaryCountsFailures ==
    LET Failing(test) ==
            IF test.flat THEN test.status \in {"fail", "error"}
            ELSE \E i \in 1..Len(test.items) :
                    test.items[i] \in {"fail", "error"}
    IN  diag.ran
        => /\ diag.summary.failed
                = Cardinality({k \in DOMAIN diag.tests :
                                  Failing(diag.tests[k])})
           /\ diag.summary.verdict = "operational"
                => \A k \in DOMAIN diag.tests : ~Failing(diag.tests[k])

====
